---- MODULE Spec2Model ----
(***************************************************************************)
(* A model of the record classifier (analyze_saas_private.py), of the      *)
(* incident/issue reconciliation pipeline (quality_analysis.py), of the    *)
(* command line of analyze.py, of remove_base64_images.py, of the weekly   *)
(* report analyzer (cto_weekly_report_analyzer.py), of the SaaS filter of  *)
(* analyze_saas_monthly.py and of the bug groups of quality_summary.py.    *)
(*                                                                         *)
(* Text.  A Python str is a sequence of characters.  An ASCII character is *)
(* written as itself ("S"); any other character is written as its Unicode  *)
(* code point ("u79c1" is U+79C1).  Substring tests, lower(), strip() and  *)
(* replace() are computed on these sequences character by character.       *)
(*                                                                         *)
(* Cells.  A table cell is a str, or the pandas missing value NaN.         *)
(***************************************************************************)
EXTENDS Integers, Sequences, FiniteSets, TLC

VARIABLES
    \* ---- analyze_saas_private.py (module-level script) ----
    cpc,              \* position in the script: "loaded", "classified", "separated"
    bug_df,           \* the bug table: a sequence of rows [name, env, customer]
    deployment_col,   \* the column bug_df['deployment type'] (line 58), <<>> before it is set
    saas_df,          \* line 61: names of the rows selected as SaaS
    private_df,       \* line 62
    unclassified_df,  \* line 63
    \* ---- quality_analysis.py ----
    pc,               \* position in main() and in the function it is running
    run,              \* "first" or "second": which run of main() on the same files this is
    clock,            \* the wall clock datetime.now() reads
    incident_file,    \* the rows of INCIDENT_FILE (line 14)
    jira_file,        \* the rows of JIRA_FILE (line 15)
    jira_header,      \* the column labels of JIRA_FILE (its first line)
    raw_incidents,    \* the table load_data returned (line 445)
    incidents,        \* main's incidents after clean_incident_data (line 446)
    jira,             \* main's jira (line 445)
    jira_faults,      \* the running function's local copy of the fault rows
    idx,              \* match_incidents_with_jira: position of the outer loop (line 64)
    jidx,             \* position of the inner loop (line 78)
    keywords,         \* line 74
    found,            \* line 70
    matched_jira,     \* line 71
    matches,          \* line 61
    no_matches,       \* line 62
    distribution,     \* line 459
    root_causes,      \* line 465
    resolution,       \* line 471
    report,           \* line 477
    output_file,      \* the content of OUTPUT_FILE (line 480)
    error,            \* the exception that ended the run, "" while there is none
    first_run,        \* what the first run produced, kept to compare the second with
    \* ---- analyze.py ----
    apc,              \* position in main(): "start", "dispatch", "done"
    argv,             \* sys.argv: the script name, then the arguments
    analyzer,         \* the analyzer load_analyzer returned, Unset before line 134
    calls,            \* the cmd_ handlers called so far, each with its argument
    help_printed,     \* how many times print_help was called
    json_written,     \* whether weekly_report_analysis.json was written
    \* ---- remove_base64_images.py ----
    rpc,              \* position in the script: "start", "done", "raised"
    md_file,          \* the content of the markdown file (input_file, rewritten in place)
    passes,           \* how many runs of the script on the file have ended
    found_images,     \* what each run printed as "Found N base64 images", in order
    first_output,     \* the content the first run wrote
    \* ---- cto_weekly_report_analyzer.py ----
    wpc,              \* position in main(): "load", "summary", "export", "done"
    md_files,         \* the contents of the *.md files of the data directory not loaded yet
    loaded,           \* the contents of the files loaded so far, in load order
    entries,          \* analyzer.entries (line 70)
    all_clients,      \* analyzer.all_clients (line 71)
    client_mentions,  \* analyzer.client_mentions (line 72)
    period,           \* the analysis period of the executive summary (line 266)
    date_range,       \* the date_range of the exported analysis (lines 378-381)
    \* ---- analyze_saas_monthly.py ----
    mopc,             \* position in the script: "loaded", "filtered"
    monthly_saas_df,  \* line 35: the index labels of the rows of bug_df is_saas selects
    \* ---- quality_summary.py ----
    spc,              \* position: "loaded", "analyzed", "reported", "raised"
    sjira,            \* the issue table analyze_jira_bugs is given
    jira_stats,       \* what analyze_jira_bugs returned (line 479 of the script's main)
    comparison        \* the rows of the comparison table of generate_summary

cvars == <<cpc, bug_df, deployment_col, saas_df, private_df, unclassified_df>>

pvars == <<pc, run, clock, incident_file, jira_file, raw_incidents, incidents, jira,
           jira_faults, idx, jidx, keywords, found, matched_jira, matches, no_matches,
           distribution, root_causes, resolution, report, output_file, first_run,
           jira_header, error>>

clivars == <<apc, argv, analyzer, calls, help_printed, json_written>>

imgvars == <<rpc, md_file, passes, found_images, first_output>>

wvars == <<wpc, md_files, loaded, entries, all_clients, client_mentions, period, date_range>>

movars == <<mopc, monthly_saas_df>>

svars == <<spc, sjira, jira_stats, comparison>>

xvars == <<wvars, movars, svars>>

vars == <<cvars, pvars, clivars, imgvars, xvars>>

-----------------------------------------------------------------------------
(* Python values and str methods *)

\* pandas NaN (a missing cell) and Python None (row.get on an absent column)
NaN == <<"NaN">>
None == <<"None">>

\* pd.notna(x)
notna(x) == x \notin {NaN, None}

\* pd.isna(x)
isna(x) == ~notna(x)

\* str(x): the text of a cell; str(float('nan')) is 'nan', str(None) is 'None'
str(x) ==
    IF x = NaN THEN <<"n", "a", "n">>
    ELSE IF x = None THEN <<"N", "o", "n", "e">>
    ELSE x

\* needle in s
Contains(needle, s) ==
    \E k \in 0..(Len(s) - Len(needle)) : SubSeq(s, k + 1, k + Len(needle)) = needle

UpperChars == <<"A", "B", "C", "D", "E", "F", "G", "H", "I", "J", "K", "L", "M",
                "N", "O", "P", "Q", "R", "S", "T", "U", "V", "W", "X", "Y", "Z">>
LowerChars == <<"a", "b", "c", "d", "e", "f", "g", "h", "i", "j", "k", "l", "m",
                "n", "o", "p", "q", "r", "s", "t", "u", "v", "w", "x", "y", "z">>

\* one character of str.lower()
LowerChar(c) ==
    IF \E k \in 1..Len(UpperChars) : UpperChars[k] = c
    THEN LowerChars[CHOOSE k \in 1..Len(UpperChars) : UpperChars[k] = c]
    ELSE c

\* s.lower()
lower(s) == [k \in 1..Len(s) |-> LowerChar(s[k])]

\* the characters str.strip() removes: space, tab, newline, U+3000
Whitespace == {" ", "\t", "\n", "u3000"}

\* s.strip()
strip(s) ==
    IF \A k \in 1..Len(s) : s[k] \in Whitespace THEN <<>>
    ELSE LET first == CHOOSE a \in 1..Len(s) :
                          /\ s[a] \notin Whitespace
                          /\ \A b \in 1..(a - 1) : s[b] \in Whitespace
             last == CHOOSE a \in 1..Len(s) :
                          /\ s[a] \notin Whitespace
                          /\ \A b \in (a + 1)..Len(s) : s[b] \in Whitespace
         IN SubSeq(s, first, last)

\* s.replace(old, ''): the occurrences of old removed, left to right, not overlapping
RECURSIVE Remove(_, _)
Remove(s, old) ==
    IF Len(s) < Len(old) \/ old = <<>> THEN s
    ELSE IF SubSeq(s, 1, Len(old)) = old THEN Remove(SubSeq(s, Len(old) + 1, Len(s)), old)
    ELSE <<Head(s)>> \o Remove(Tail(s), old)

\* s[:n]
Prefix(s, n) == SubSeq(s, 1, IF Len(s) < n THEN Len(s) ELSE n)

\* Python None where a row is expected (matched_jira = None)
NoRow == [none |-> TRUE]

\* a name that is not bound yet (a dict, a report or a file not produced so far)
Unset == [unset |-> TRUE]

\* a DataFrame: its column labels and its rows; a row maps each column to a cell and
\* carries its index label as "name"
Table(columns, rows) == [columns |-> columns, rows |-> rows]

\* pd.read_csv: the rows of a file as a table, labelled 0, 1, 2, ... (here 1, 2, 3, ...)
read_csv(columns, file) ==
    Table(columns, [k \in 1..Len(file) |-> file[k] @@ [name |-> k]])

\* a table without columns or rows, standing for a name not bound yet
NoTable == Table(<<>>, <<>>)

\* the dtype pd.read_csv gives a column of text cells: object, but float64 when the
\* table has rows and every cell of the column is missing
dtype(tbl, col) ==
    IF Len(tbl.rows) > 0 /\ \A k \in 1..Len(tbl.rows) : tbl.rows[k][col] = NaN
    THEN "float64" ELSE "object"

\* the quality_analysis pipeline has not been started
PipelineIdle ==
    /\ pc = "idle"
    /\ run = "first"
    /\ clock = 0
    /\ incident_file = <<>>
    /\ jira_file = <<>>
    /\ raw_incidents = NoTable
    /\ incidents = NoTable
    /\ jira = NoTable
    /\ jira_faults = NoTable
    /\ idx = 0
    /\ jidx = 0
    /\ keywords = <<>>
    /\ found = FALSE
    /\ matched_jira = NoRow
    /\ matches = <<>>
    /\ no_matches = <<>>
    /\ distribution = Unset
    /\ root_causes = Unset
    /\ resolution = Unset
    /\ report = Unset
    /\ output_file = Unset
    /\ first_run = Unset
    /\ jira_header = <<>>
    /\ error = ""

\* analyze.py has not been started
CliIdle ==
    /\ apc = "idle"
    /\ argv = <<>>
    /\ analyzer = Unset
    /\ calls = <<>>
    /\ help_printed = 0
    /\ json_written = FALSE

\* remove_base64_images.py has not been started
ImagesIdle ==
    /\ rpc = "idle"
    /\ md_file = <<>>
    /\ passes = 0
    /\ found_images = <<>>
    /\ first_output = Unset

\* cto_weekly_report_analyzer.py has not been started
WeeklyIdle ==
    /\ wpc = "idle"
    /\ md_files = <<>>
    /\ loaded = <<>>
    /\ entries = <<>>
    /\ all_clients = {}
    /\ client_mentions = <<>>
    /\ period = Unset
    /\ date_range = Unset

\* analyze_saas_monthly.py has not been started
MonthlyIdle ==
    /\ mopc = "idle"
    /\ monthly_saas_df = <<>>

\* quality_summary.py has not been started
SummaryIdle ==
    /\ spc = "idle"
    /\ sjira = NoTable
    /\ jira_stats = Unset
    /\ comparison = Unset

\* none of these three scripts has been started
ScriptsIdle == WeeklyIdle /\ MonthlyIdle /\ SummaryIdle

\* row.get(col, default)
Get(row, col, default) == IF col \in DOMAIN row THEN row[col] ELSE default

-----------------------------------------------------------------------------
(* analyze_saas_private.py *)

\* 'SaaS', '私有化' (private), 'SaaS客户' (SaaS customer), 'SDK'
s_SaaS == <<"S", "a", "a", "S">>
s_saas == <<"s", "a", "a", "s">>
s_private == <<"u79c1", "u6709", "u5316">>
s_SaaS_customer == <<"S", "a", "a", "S", "u5ba2", "u6237">>
s_SDK == <<"S", "D", "K">>
s_sdk == <<"s", "d", "k">>

\* the three return values: 'SaaS', '私有化', '未分类' (unclassified)
r_SaaS == s_SaaS
r_private == s_private
r_unclassified == <<"u672a", "u5206", "u7c7b">>

\* column names (lines 23-24)
env_col == "env"
customer_col == "customer"

\* lines 45-47
private_keywords ==
  << <<"u798f", "u7530">>,
     <<"u5357", "u65b9", "u7535", "u7f51">>,
     <<"O", "P", "P", "O">>,
     <<"u5e7f", "u4e1c", "u7535", "u4fe1">>,
     <<"u552f", "u54c1", "u4f1a">>,
     <<"u597d", "u672a", "u6765">>,
     <<"u62db", "u5546">>,
     <<"u65b0", "u534e", "u4e09">>,
     <<"u8de8", "u8d8a">>,
     <<"T", "C", "L">>,
     <<"u767e", "u5ea6">>,
     <<"u5c0f", "u7ea2", "u4e66">>,
     <<"u683c", "u529b">>,
     <<"u733f", "u8f85", "u5bfc">>,
     <<"3", "6", "0">>,
     <<"u7389", "u6eaa">>,
     <<"u4e1c", "u98ce">>,
     <<"u878d", "u4e91">>,
     <<"u6ef4", "u6ef4">>,
     <<"u4f5c", "u4e1a", "u5e2e">> >>

\* line 27
RowEnv(row) ==
    IF notna(Get(row, env_col, None)) THEN str(Get(row, env_col, <<>>)) ELSE <<>>

\* line 28
RowCustomer(row) ==
    IF notna(Get(row, customer_col, None)) THEN str(Get(row, customer_col, <<>>)) ELSE <<>>

\* a classifier that looks at the row's position as well (a fault, for comparison)
classify_by_position(row) ==
    IF row.name % 2 = 0 THEN r_private ELSE r_unclassified

\* a classifier whose first test is case-sensitive only (a fault, for comparison)
classify_case_sensitive(row) ==
    LET env == RowEnv(row)
        customer == RowCustomer(row)
    IN  IF Contains(s_SaaS, env) THEN r_SaaS
        ELSE IF Contains(s_private, env) THEN r_private
        ELSE IF customer = s_SaaS_customer \/ Contains(s_SaaS, customer) THEN r_SaaS
        ELSE IF strip(customer) # <<>> THEN r_private
        ELSE r_unclassified

\* a classifier that tests the customer before the private marker (a fault, for comparison)
classify_customer_first(row) ==
    LET env == RowEnv(row)
        customer == RowCustomer(row)
    IN  IF Contains(s_SaaS, env) \/ Contains(s_saas, lower(env)) THEN r_SaaS
        ELSE IF customer = s_SaaS_customer \/ Contains(s_SaaS, customer) THEN r_SaaS
        ELSE IF Contains(s_private, env) THEN r_private
        ELSE IF strip(customer) # <<>> THEN r_private
        ELSE r_unclassified

\* a classifier without the final strip() (a fault, for comparison)
classify_no_strip(row) ==
    LET env == RowEnv(row)
        customer == RowCustomer(row)
    IN  IF Contains(s_SaaS, env) \/ Contains(s_saas, lower(env)) THEN r_SaaS
        ELSE IF Contains(s_private, env) THEN r_private
        ELSE IF customer = s_SaaS_customer \/ Contains(s_SaaS, customer) THEN r_SaaS
        ELSE IF customer # <<>> THEN r_private
        ELSE r_unclassified

\* a classifier that indexes the stripped customer name (raises on a blank one)
classify_raises(row) ==
    LET env == RowEnv(row)
        customer == RowCustomer(row)
    IN  IF Contains(s_SaaS, env) \/ Contains(s_saas, lower(env)) THEN r_SaaS
        ELSE IF Contains(s_private, env) THEN r_private
        ELSE IF customer = s_SaaS_customer \/ Contains(s_SaaS, customer) THEN r_SaaS
        ELSE IF customer # <<>> /\ strip(customer) = <<>> THEN <<"raise">>
        ELSE IF customer # <<>> THEN r_private
        ELSE r_unclassified

\* a classifier whose customer test ignores the letter case (a fault, for comparison)
classify_customer_any_case(row) ==
    LET env == RowEnv(row)
        customer == RowCustomer(row)
    IN  IF Contains(s_SaaS, env) \/ Contains(s_saas, lower(env)) THEN r_SaaS
        ELSE IF Contains(s_private, env) THEN r_private
        ELSE IF customer = s_SaaS_customer \/ Contains(s_saas, lower(customer)) THEN r_SaaS
        ELSE IF customer # <<>> /\ strip(customer) # <<>> THEN r_private
        ELSE r_unclassified

\* a classifier that takes an SDK customer for a SaaS one (a fault, for comparison)
classify_sdk_saas(row) ==
    LET env == RowEnv(row)
        customer == RowCustomer(row)
    IN  IF Contains(s_SaaS, env) \/ Contains(s_saas, lower(env)) THEN r_SaaS
        ELSE IF Contains(s_private, env) THEN r_private
        ELSE IF customer = s_SaaS_customer \/ Contains(s_SaaS, customer) THEN r_SaaS
        ELSE IF Contains(s_SDK, customer) \/ Contains(s_sdk, lower(customer)) THEN r_SaaS
        ELSE IF customer # <<>> /\ strip(customer) # <<>> THEN r_private
        ELSE r_unclassified

\* lines 26-56
classify_deployment(row) ==
    LET env == RowEnv(row)
        customer == RowCustomer(row)
    IN  \* line 31
        IF Contains(s_SaaS, env) \/ Contains(s_saas, lower(env)) THEN r_SaaS
        \* line 33
        ELSE IF Contains(s_private, env) THEN r_private
        \* line 37
        ELSE IF customer = s_SaaS_customer \/ Contains(s_SaaS, customer) THEN r_SaaS
        \* line 41
        ELSE IF Contains(s_SDK, customer) \/ Contains(s_sdk, lower(customer)) THEN r_private
        \* lines 48-50
        ELSE IF \E k \in 1..Len(private_keywords) : Contains(private_keywords[k], customer)
             THEN r_private
        \* line 53
        ELSE IF customer # <<>> /\ strip(customer) # <<>> THEN r_private
        \* line 56
        ELSE r_unclassified

\* the largest bug table of the model
MaxRows == 2

\* values of the defect-environment column: missing, '', ' ', 'SaaS' + production
\* environment, 'saas', 'SAAS' + private, private + deployment, production environment
EnvSamples ==
    { NaN, <<>>, <<" ">>,
      <<"S", "a", "a", "S", "u751f", "u4ea7", "u73af", "u5883">>,
      <<"s", "a", "a", "s">>,
      <<"S", "A", "A", "S", "u79c1", "u6709", "u5316">>,
      <<"u79c1", "u6709", "u5316", "u90e8", "u7f72">>,
      <<"u751f", "u4ea7", "u73af", "u5883">> }

\* values of the customer-name column: missing, ' \t', 'SaaS' + customer, 'saas',
\* 'sdk', Futian + 'motor' (on the private list), some other customer
CustomerSamples ==
    { NaN, <<" ", "\t">>,
      s_SaaS_customer,
      <<"s", "a", "a", "s">>,
      <<"s", "d", "k">>,
      <<"u798f", "u7530", "u6c7d", "u8f66">>,
      <<"u67d0", "u5ba2", "u6237">> }

\* the bug table of lines 19-20 with the given environment and customer cells:
\* row k has index label k
BugTable(e, c) == [k \in 1..Len(e) |-> [name |-> k, env |-> e[k], customer |-> c[k]]]

\* the classifier script has not been started
ClassifierIdle ==
    /\ cpc = "idle"
    /\ bug_df = <<>>
    /\ deployment_col = <<>>
    /\ saas_df = <<>>
    /\ private_df = <<>>
    /\ unclassified_df = <<>>

InitClassify ==
    /\ ScriptsIdle
    /\ PipelineIdle
    /\ CliIdle
    /\ ImagesIdle
    /\ cpc = "loaded"
    /\ \E n \in 1..MaxRows :
          \E e \in [1..n -> EnvSamples], c \in [1..n -> CustomerSamples] :
              bug_df = BugTable(e, c)
    /\ deployment_col = <<>>
    /\ saas_df = <<>>
    /\ private_df = <<>>
    /\ unclassified_df = <<>>

\* line 58: bug_df[deployment type] = bug_df.apply(classify_deployment, axis=1)
ApplyClassify ==
    /\ cpc = "loaded"
    /\ deployment_col' = [k \in 1..Len(bug_df) |-> classify_deployment(bug_df[k])]
    /\ cpc' = "classified"
    /\ UNCHANGED <<bug_df, saas_df, private_df, unclassified_df, pvars, clivars, imgvars, xvars>>

\* the index labels of the rows whose deployment type is cls
RowsOfClass(cls) ==
    LET Pick(row) == deployment_col[row.name] = cls
    IN  [k \in 1..Len(SelectSeq(bug_df, Pick)) |-> SelectSeq(bug_df, Pick)[k].name]

\* lines 61-63
Separate ==
    /\ cpc = "classified"
    /\ saas_df' = RowsOfClass(r_SaaS)
    /\ private_df' = RowsOfClass(r_private)
    /\ unclassified_df' = RowsOfClass(r_unclassified)
    /\ cpc' = "separated"
    /\ UNCHANGED <<bug_df, deployment_col, pvars, clivars, imgvars, xvars>>

NextClassify == ApplyClassify \/ Separate

SpecClassify == InitClassify /\ [][NextClassify]_vars

-----------------------------------------------------------------------------
(* quality_analysis.py: tables and text *)

\* the columns of the incident table: report name, incident date, level,
\* customer, owning team
IncidentColumns == <<"report_name", "incident_date", "level", "customer", "team">>

\* the columns of the issue table: issue type, summary, description, customer name,
\* creation date, status, severity, discovery environment, root cause, defect
\* type, solution
JiraColumns == <<"issue_type", "summary", "description", "customer_name", "created",
                 "status", "severity", "env", "root_cause", "defect_type", "solution">>

\* '故障' (fault), '缺陷' (defect), '完成' (done), '待办' (to do)
s_fault == <<"u6545", "u969c">>
s_defect == <<"u7f3a", "u9677">>
s_done == <<"u5b8c", "u6210">>
s_todo == <<"u5f85", "u529e">>

\* '故障报告' (incident report), '的', 'nan'
s_incident_report == <<"u6545", "u969c", "u62a5", "u544a">>
s_de == <<"u7684">>
s_nan == <<"n", "a", "n">>

\* '表格', '表单', '文档', '文件', '同步', '登录', '白屏'
s_table == <<"u8868", "u683c">>
s_form == <<"u8868", "u5355">>
s_document == <<"u6587", "u6863">>
s_file == <<"u6587", "u4ef6">>
s_sync == <<"u540c", "u6b65">>
s_login == <<"u767b", "u5f55">>
s_blank_screen == <<"u767d", "u5c4f">>

\* lines 38-39
customers ==
  << <<"u733f", "u8f85", "u5bfc">>,
     <<"u597d", "u672a", "u6765">>,
     <<"u5c0f", "u7ea2", "u4e66">>,
     <<"u4eac", "u4e1c">>,
     <<"O", "P", "P", "O">>,
     <<"u8fb9", "u950b">>,
     <<"u535a", "u7eb3">>,
     <<"u5e7f", "u4e1c", "u7535", "u4fe1">>,
     <<"u5317", "u4eac", "u51ef", "u8bfb">>,
     <<"u6ef4", "u6ef4">>,
     <<"u62db", "u5546">>,
     <<"u878d", "u4e91">>,
     <<"u4e1c", "u98ce">>,
     <<"u683c", "u529b">>,
     <<"3", "6", "0">>,
     <<"u7389", "u6eaa">> >>

\* the keywords with the technical terms tested as one if/elif chain, so that at
\* most one of them is kept (a fault, for comparison)
extract_keywords_elif(text) ==
    IF isna(text) THEN <<>>
    ELSE LET InText(c) == Contains(c, str(text))
         IN  SelectSeq(customers, InText)
             \o (IF InText(s_table) \/ InText(s_form) THEN <<s_table>>
                 ELSE IF InText(s_document) \/ InText(s_file) THEN <<s_document>>
                 ELSE IF InText(s_sync) THEN <<s_sync>>
                 ELSE IF InText(s_login) THEN <<s_login>>
                 ELSE IF InText(s_blank_screen) THEN <<s_blank_screen>>
                 ELSE <<>>)

\* lines 31-54
extract_keywords(text) ==
    IF isna(text) THEN <<>>
    ELSE LET InText(c) == Contains(c, str(text))
         IN  SelectSeq(customers, InText)
             \o (IF InText(s_table) \/ InText(s_form) THEN <<s_table>> ELSE <<>>)
             \o (IF InText(s_document) \/ InText(s_file) THEN <<s_document>> ELSE <<>>)
             \o (IF InText(s_sync) THEN <<s_sync>> ELSE <<>>)
             \o (IF InText(s_login) THEN <<s_login>> ELSE <<>>)
             \o (IF InText(s_blank_screen) THEN <<s_blank_screen>> ELSE <<>>)

\* line 65
IncidentName(row) == str(row.report_name)

\* line 67
IncidentCustomer(row) == IF notna(row.customer) THEN str(row.customer) ELSE <<>>

\* the keyword list without the customer of lines 75-76 (a fault, for comparison)
RowKeywords_no_customer(row) == extract_keywords(IncidentName(row))

\* lines 74-76: the keyword list of an incident row
RowKeywords(row) ==
    extract_keywords(IncidentName(row))
    \o (IF IncidentCustomer(row) # <<>> /\ IncidentCustomer(row) # s_nan
        THEN <<IncidentCustomer(row)>> ELSE <<>>)

\* lines 79-83
combined_text(jrow) ==
    LET jira_summary == IF notna(jrow.summary) THEN str(jrow.summary) ELSE <<>>
        jira_desc == IF notna(jrow.description) THEN str(jrow.description) ELSE <<>>
        jira_customer == IF notna(Get(jrow, "customer_name", <<>>))
                         THEN str(Get(jrow, "customer_name", <<>>)) ELSE <<>>
    IN  jira_summary \o <<" ">> \o jira_desc \o <<" ">> \o jira_customer

\* line 89
name_parts(incident_name) == strip(Remove(Remove(incident_name, s_incident_report), s_de))

\* line 90: the length a name must exceed, and the length of the prefix compared
MinNameLen == 5
NamePrefixLen == 10

\* line 91: what a name-prefix match adds; line 93: the score a match needs
PrefixBonus == 2
MatchThreshold == 2

\* the score counting each distinct keyword once, as a set of keywords would (a
\* fault, for comparison)
match_count_distinct(kws, incident_name, jrow) ==
    LET parts == name_parts(incident_name)
    IN  Cardinality({kws[k] : k \in {j \in 1..Len(kws) :
                                        Contains(kws[j], combined_text(jrow))}})
        + (IF Len(parts) > MinNameLen /\ Contains(Prefix(parts, NamePrefixLen), combined_text(jrow))
           THEN PrefixBonus ELSE 0)

\* the score with the bonus given to a name of any length, without the test
\* len(name_parts) > 5 (a fault, for comparison)
match_count_any_length(kws, incident_name, jrow) ==
    LET InBlob(kw) == Contains(kw, combined_text(jrow))
        parts == name_parts(incident_name)
    IN  Len(SelectSeq(kws, InBlob))
        + (IF Contains(Prefix(parts, NamePrefixLen), combined_text(jrow))
           THEN PrefixBonus ELSE 0)

\* lines 86-91
match_count(kws, incident_name, jrow) ==
    LET InBlob(kw) == Contains(kw, combined_text(jrow))
        parts == name_parts(incident_name)
    IN  Len(SelectSeq(kws, InBlob))
        + (IF Len(parts) > MinNameLen /\ Contains(Prefix(parts, NamePrefixLen), combined_text(jrow))
           THEN PrefixBonus ELSE 0)

\* the issue table taken whole, without the filter on the issue type (a fault, for
\* comparison)
all_issue_rows(tbl) == Table(tbl.columns, tbl.rows)

\* jira[jira[issue type] == fault].copy() (lines 59, 113, 155, 185)
IsFault(jrow) == jrow.issue_type = s_fault
fault_rows(tbl) == Table(tbl.columns, SelectSeq(tbl.rows, IsFault))

\* lines 24-29
clean_incident_data(df) ==
    LET HasName(row) == notna(row.report_name)
        NotBlank(row) == strip(row.report_name) # <<>>
    IN  Table(df.columns, SelectSeq(SelectSeq(df.rows, HasName), NotBlank))

-----------------------------------------------------------------------------
(* quality_analysis.py: dates and aggregates *)

\* pandas NaT, and the NaN of a numeric column
NaT == [nat |-> TRUE]
FloatNaN == [nan |-> TRUE]
Float(n) == [float |-> n]

DigitChars == <<"0", "1", "2", "3", "4", "5", "6", "7", "8", "9">>
IsDigit(c) == \E k \in 1..Len(DigitChars) : DigitChars[k] = c
DigitValue(c) == (CHOOSE k \in 1..Len(DigitChars) : DigitChars[k] = c) - 1

\* the days of a month of the Gregorian calendar
DaysIn(year, month) ==
    IF month = 2
    THEN (IF year % 4 = 0 /\ (year % 100 # 0 \/ year % 400 = 0) THEN 29 ELSE 28)
    ELSE IF month \in {4, 6, 9, 11} THEN 30 ELSE 31

\* a parser that puts today's date where the text gives none (a fault, for comparison)
to_datetime_or_today(x) ==
    IF isna(x) \/ Len(x) # 10 THEN [year |-> 2025, month |-> 1 + clock, day |-> 1]
    ELSE [year |-> DigitValue(x[1]) * 1000 + DigitValue(x[2]) * 100
                   + DigitValue(x[3]) * 10 + DigitValue(x[4]),
          month |-> DigitValue(x[6]) * 10 + DigitValue(x[7]),
          day |-> DigitValue(x[9]) * 10 + DigitValue(x[10])]

\* pd.to_datetime(cell, errors='coerce') for ISO dates (YYYY-MM-DD): a missing
\* cell, a text of another shape or an impossible date gives NaT
to_datetime(x) ==
    IF isna(x) THEN NaT
    ELSE IF /\ Len(x) = 10
            /\ x[5] = "-"
            /\ x[8] = "-"
            /\ \A k \in {1, 2, 3, 4, 6, 7, 9, 10} : IsDigit(x[k])
         THEN LET y == DigitValue(x[1]) * 1000 + DigitValue(x[2]) * 100
                       + DigitValue(x[3]) * 10 + DigitValue(x[4])
                  m == DigitValue(x[6]) * 10 + DigitValue(x[7])
                  d == DigitValue(x[9]) * 10 + DigitValue(x[10])
              IN  IF y >= 1 /\ m \in 1..12 /\ d \in 1..DaysIn(y, m)
                  THEN [year |-> y, month |-> m, day |-> d]
                  ELSE NaT
         ELSE NaT

\* Series.dt.month of one cell
dt_month(d) == IF d = NaT THEN FloatNaN ELSE Float(d.month)

\* col in df.columns
HasColumn(tbl, col) == \E k \in 1..Len(tbl.columns) : tbl.columns[k] = col

\* df[col] = values: the column is replaced, or added after the last column
SetColumn(tbl, col, values) ==
    Table(IF HasColumn(tbl, col) THEN tbl.columns ELSE Append(tbl.columns, col),
          [k \in 1..Len(tbl.rows) |-> (col :> values[k]) @@ tbl.rows[k]])

\* df[col].value_counts().to_dict(): each value present, with the rows that hold it
value_counts(tbl, col) ==
    LET present == {k \in 1..Len(tbl.rows) : notna(tbl.rows[k][col])}
    IN  [v \in {tbl.rows[k][col] : k \in present} |->
            Cardinality({k \in present : tbl.rows[k][col] = v})]

\* the group sizes with the rows without a date kept as a group of their own,
\* under month 0, as groupby(dropna=False) would (a fault, for comparison)
month_sizes_undated(tbl, col) ==
    LET MonthAt(k) == IF tbl.rows[k][col] = NaT THEN 0 ELSE tbl.rows[k][col].month
    IN  [m \in {MonthAt(k) : k \in 1..Len(tbl.rows)} |->
            Cardinality({k \in 1..Len(tbl.rows) : MonthAt(k) = m})]

\* df.groupby(month of the date column col).size().to_dict(): rows without a
\* date are in no group
month_sizes(tbl, col) ==
    LET dated == {k \in 1..Len(tbl.rows) : tbl.rows[k][col] # NaT}
    IN  [m \in {tbl.rows[k][col].month : k \in dated} |->
            Cardinality({k \in dated : tbl.rows[k][col].month = m})]

\* the result stored in any case, empty when the column is not there (a fault,
\* for comparison)
WithKey_default(d, has, key, value) == (key :> (IF has THEN value ELSE <<>>)) @@ d

\* d with d[key] = value when has holds (a result stored under a column check)
WithKey(d, has, key, value) == IF has THEN (key :> value) @@ d ELSE d

\* a / b * 100 as the fraction <<100 a, b>>, and 0 (the fraction <<0, 1>>) when the
\* guard b > 0 fails or the figure is missing (lines 359-360)
Percent(a, b) == IF b > 0 THEN <<a * 100, b>> ELSE <<0, 1>>

\* '处理中' (in progress), '挂起中' (suspended), '重新打开' (reopened); line 219
unresolved_status ==
    { s_todo,
      <<"u5904", "u7406", "u4e2d">>,
      <<"u6302", "u8d77", "u4e2d">>,
      <<"u91cd", "u65b0", "u6253", "u5f00">> }

\* the columns whose label contains 'defect type' (line 167)
DefectColumns(tbl) == {c \in {"defect_type"} : HasColumn(tbl, c)}

\* lines 108-151: the dict analyze_distribution returns, given the incident table
\* with its two new columns and the local fault table with its parsed dates
distribution_results(inc, faults) ==
    LET Year2025(row) == row.created_parsed # NaT /\ row.created_parsed.year = 2025
        jira_2025 == Table(faults.columns, SelectSeq(faults.rows, Year2025))
        base == [monthly_incidents |-> month_sizes(inc, "date_parsed"),
                 team_dist |-> value_counts(inc, "team"),
                 severity_dist |-> value_counts(inc, "level"),
                 customer_dist |-> value_counts(inc, "customer"),
                 jira_monthly |-> month_sizes(jira_2025, "created_parsed")]
    IN  WithKey(WithKey(base, HasColumn(faults, "severity"),
                        "jira_severity", value_counts(faults, "severity")),
                HasColumn(faults, "env"), "env_dist", value_counts(faults, "env"))

\* lines 116-117: the incident table after analyze_distribution
with_parsed_dates(inc) ==
    LET parsed == [k \in 1..Len(inc.rows) |-> to_datetime(inc.rows[k].incident_date)]
        month == [k \in 1..Len(inc.rows) |-> dt_month(parsed[k])]
    IN  SetColumn(SetColumn(inc, "date_parsed", parsed), "month", month)

\* line 134: the local fault table after analyze_distribution
with_created_parsed(faults) ==
    SetColumn(faults, "created_parsed",
              [k \in 1..Len(faults.rows) |-> to_datetime(faults.rows[k].created)])

\* lines 153-181; with at most a few faults most_common(15) keeps every defect type
root_cause_results(faults) ==
    LET KeepCause(counts) ==
            [v \in {k \in DOMAIN counts : notna(k) /\ strip(str(k)) # <<>>} |-> counts[v]]
        cells == {<<c, k>> \in DefectColumns(faults) \X (1..Len(faults.rows)) :
                     /\ notna(faults.rows[k][c])
                     /\ faults.rows[k][c] # <<>>
                     /\ strip(str(faults.rows[k][c])) # <<>>}
        defect_types ==
            [v \in {strip(str(faults.rows[p[2]][p[1]])) : p \in cells} |->
                Cardinality({p \in cells : strip(str(faults.rows[p[2]][p[1]])) = v})]
        HasSolution(row) == notna(row.solution)
    IN  WithKey(WithKey([defect_types |-> defect_types],
                        HasColumn(faults, "root_cause"),
                        "root_causes", KeepCause(value_counts(faults, "root_cause"))),
                HasColumn(faults, "solution"),
                "solution_count", Len(SelectSeq(faults.rows, HasSolution)))

\* lines 183-223
resolution_results(faults) ==
    LET Done(row) == row.status = s_done
        IsP0(row) == notna(row.severity) /\ Contains(<<"P", "0">>, row.severity)
        IsP1(row) == notna(row.severity) /\ Contains(<<"P", "1">>, row.severity)
        P0Done(row) == IsP0(row) /\ Done(row)
        P1Done(row) == IsP1(row) /\ Done(row)
        Unresolved(row) == row.status \in unresolved_status
        base == [status_dist |-> value_counts(faults, "status"),
                 total |-> Len(faults.rows),
                 resolved |-> Len(SelectSeq(faults.rows, Done)),
                 resolution_rate |-> Percent(Len(SelectSeq(faults.rows, Done)), Len(faults.rows)),
                 unresolved_count |-> Len(SelectSeq(faults.rows, Unresolved))]
    IN  IF HasColumn(faults, "severity")
        THEN [p0_total |-> Len(SelectSeq(faults.rows, IsP0)),
              p0_resolved |-> Len(SelectSeq(faults.rows, P0Done)),
              p0_rate |-> Percent(Len(SelectSeq(faults.rows, P0Done)), Len(SelectSeq(faults.rows, IsP0))),
              p1_total |-> Len(SelectSeq(faults.rows, IsP1)),
              p1_resolved |-> Len(SelectSeq(faults.rows, P1Done)),
              p1_rate |-> Percent(Len(SelectSeq(faults.rows, P1Done)), Len(SelectSeq(faults.rows, IsP1)))]
             @@ base
        ELSE base

\* line 256: a name of more than 30 characters is cut to 30 and followed by '...'
ReportNameLen == 30
report_name_cell(row) ==
    IF Len(str(row.report_name)) > ReportNameLen
    THEN Prefix(str(row.report_name), ReportNameLen) \o <<".", ".", ".">>
    ELSE str(row.report_name)

\* sum(d.values())
RECURSIVE sum_values(_)
sum_values(d) ==
    IF DOMAIN d = {} THEN 0
    ELSE LET key == CHOOSE x \in DOMAIN d : TRUE
         IN  d[key] + sum_values([x \in DOMAIN d \ {key} |-> d[x]])

\* the rows of a table of the report with a count and a share of the total (lines
\* 291-295, 331-334); a table lists its rows by falling count, which the counts
\* determine, and a few rows are below its cut (lines 312, 320, 332, 340)
share_table(d, keys) ==
    [k \in keys |-> [count |-> d[k], pct |-> Percent(d[k], sum_values(d))]]

\* the keys a table of the report shows: pd.notna(k) and str(k).strip()
shown_keys(d) == {k \in DOMAIN d : notna(k) /\ strip(str(k)) # <<>>}

\* lines 232-434: the figures the report is made of, without its timestamp;
\* unmatched / total_incidents (lines 247-248) is the fraction <<100 unmatched, total>>
report_body(inc, jr, ms, nms, dist, roots, resol) ==
    LET team_dist == Get(dist, "team_dist", <<>>)
        severity_dist == Get(dist, "severity_dist", <<>>)
        customer_dist == Get(dist, "customer_dist", <<>>)
        env_dist == Get(dist, "env_dist", <<>>)
        causes == Get(roots, "root_causes", <<>>)
    IN
    [total_incidents |-> Len(inc.rows),
     jira_total |-> Len(jr.rows),
     fault_total |-> Len(fault_rows(jr).rows),
     matched |-> Len(ms),
     unmatched |-> Len(nms),
     matched_share |-> <<Len(ms) * 100, Len(inc.rows)>>,
     unmatched_share |-> <<Len(nms) * 100, Len(inc.rows)>>,
     unmatched_list |-> [k \in 1..Len(nms) |->
                            [report_name |-> report_name_cell(nms[k]),
                             incident_date |-> nms[k].incident_date,
                             level |-> nms[k].level,
                             customer |-> nms[k].customer]],
     monthly_incidents |-> Get(dist, "monthly_incidents", <<>>),
     jira_monthly |-> Get(dist, "jira_monthly", <<>>),
     team_table |-> share_table(team_dist, shown_keys(team_dist)),
     severity_table |->
         [sev \in {<<"P", "0">>, <<"P", "1">>, <<"P", "2">>} |->
             [count |-> Get(severity_dist, sev, 0),
              pct |-> Percent(Get(severity_dist, sev, 0), sum_values(severity_dist))]],
     customer_table |-> [k \in shown_keys(customer_dist) |-> customer_dist[k]],
     env_table |-> [k \in shown_keys(env_dist) |-> env_dist[k]],
     root_table |-> share_table(causes, DOMAIN causes),
     defect_table |-> Get(roots, "defect_types", <<>>),
     total |-> resol.total,
     resolved |-> resol.resolved,
     resolution_rate |-> resol.resolution_rate,
     unresolved_count |-> resol.unresolved_count,
     p0_row |-> [total |-> Get(resol, "p0_total", 0),
                 resolved |-> Get(resol, "p0_resolved", 0),
                 rate |-> Get(resol, "p0_rate", Percent(0, 0))],
     p1_row |-> [total |-> Get(resol, "p1_total", 0),
                 resolved |-> Get(resol, "p1_resolved", 0),
                 rate |-> Get(resol, "p1_rate", Percent(0, 0))],
     status_table |-> Get(resol, "status_dist", <<>>)]

-----------------------------------------------------------------------------
(* quality_analysis.py: the input files of the model *)

\* the longest incident file and the longest issue file of the model
MaxIncidents == 2
MaxIssues == 2

\* customers: Didi, Futian; teams: back end, front end; an unparseable date
s_didi == <<"u6ef4", "u6ef4">>
s_futian == <<"u798f", "u7530">>
s_backend == <<"u540e", "u7aef">>
s_frontend == <<"u524d", "u7aef">>
s_undated == <<"u5f85", "u5b9a">>

\* Didi + document + sync + incident report, dated 2025-03-05, P1, no customer cell
IncidentA ==
    [report_name |-> <<"u6ef4", "u6ef4", "u6587", "u6863", "u540c", "u6b65",
                       "u6545", "u969c", "u62a5", "u544a">>,
     incident_date |-> <<"2", "0", "2", "5", "-", "0", "3", "-", "0", "5">>,
     level |-> <<"P", "1">>, customer |-> NaN, team |-> s_backend]

\* login + blank screen, customer Futian, a date that does not parse, P0
IncidentB ==
    [report_name |-> <<"u767b", "u5f55", "u767d", "u5c4f">>,
     incident_date |-> s_undated,
     level |-> <<"P", "0">>, customer |-> s_futian, team |-> s_frontend]

\* Yuanfudao + form + "page blank screen after submit" + 的 + incident report
\* (12 characters once the generic words are removed), dated 2025-11-20, P2
IncidentE ==
    [report_name |-> <<"u733f", "u8f85", "u5bfc", "u8868", "u5355", "u63d0", "u4ea4",
                       "u540e", "u9875", "u9762", "u767d", "u5c4f", "u7684",
                       "u6545", "u969c", "u62a5", "u544a">>,
     incident_date |-> <<"2", "0", "2", "5", "-", "1", "1", "-", "2", "0">>,
     level |-> <<"P", "2">>, customer |-> NaN, team |-> s_backend]

\* an empty line of the file: every cell missing
IncidentN ==
    [report_name |-> NaN, incident_date |-> NaN, level |-> NaN, customer |-> NaN,
     team |-> NaN]

IncidentSamples == {IncidentA, IncidentB, IncidentE, IncidentN}

\* a fault: summary "Didi customer feedback", description "sync failed", done, P0
IssueJ1 ==
    [issue_type |-> s_fault,
     summary |-> <<"u6ef4", "u6ef4", "u5ba2", "u6237", "u53cd", "u9988">>,
     description |-> <<"u540c", "u6b65", "u5931", "u8d25">>,
     customer_name |-> NaN,
     created |-> <<"2", "0", "2", "5", "-", "0", "3", "-", "0", "7">>,
     status |-> s_done,
     severity |-> <<"P", "0", "-", "u963b", "u585e">>,
     env |-> <<"u751f", "u4ea7", "u73af", "u5883">>,
     root_cause |-> <<"u4ee3", "u7801", "u95ee", "u9898">>,
     defect_type |-> <<"u529f", "u80fd", "u7f3a", "u9677">>,
     solution |-> <<"u91cd", "u542f", "u670d", "u52a1">>]

\* a defect (not a fault) whose text holds every keyword of incidents A and B,
\* with no severity
IssueJ2 ==
    [issue_type |-> s_defect,
     summary |-> <<"u6ef4", "u6ef4", "u6587", "u6863", "u540c", "u6b65",
                   "u767b", "u5f55", "u767d", "u5c4f">>,
     description |-> NaN,
     customer_name |-> s_futian,
     created |-> <<"2", "0", "2", "5", "-", "0", "3", "-", "0", "5">>,
     status |-> s_todo,
     severity |-> NaN,
     env |-> NaN, root_cause |-> NaN,
     defect_type |-> <<"u529f", "u80fd", "u7f3a", "u9677">>,
     solution |-> NaN]

\* a fault: summary Yuanfudao + form + "page shows an error after submit" + Didi
\* + "login failed", customer Futian, created 2024-12-30, to do, P1
IssueJ3 ==
    [issue_type |-> s_fault,
     summary |-> <<"u733f", "u8f85", "u5bfc", "u8868", "u5355", "u63d0", "u4ea4",
                   "u540e", "u9875", "u9762", "u663e", "u793a", "u5f02", "u5e38",
                   "u6ef4", "u6ef4", "u767b", "u5f55", "u5931", "u8d25">>,
     description |-> NaN,
     customer_name |-> s_futian,
     created |-> <<"2", "0", "2", "4", "-", "1", "2", "-", "3", "0">>,
     status |-> s_todo,
     severity |-> <<"P", "1", "-", "u4e25", "u91cd">>,
     env |-> <<"S", "a", "a", "S", "u73af", "u5883">>,
     root_cause |-> <<"u914d", "u7f6e", "u95ee", "u9898">>,
     defect_type |-> NaN, solution |-> NaN]

IssueSamples == {IssueJ1, IssueJ2, IssueJ3}

\* the files of at most n lines whose lines are among samples
Files(samples, n) == UNION { [1..m -> samples] : m \in 0..n }

-----------------------------------------------------------------------------
(* quality_analysis.py: main(), through match_incidents_with_jira *)

InitPipeline ==
    /\ ScriptsIdle
    /\ ClassifierIdle
    /\ CliIdle
    /\ ImagesIdle
    /\ pc = "load"
    /\ run = "first"
    /\ clock = 0
    /\ incident_file \in Files(IncidentSamples, MaxIncidents)
    /\ jira_file \in Files(IssueSamples, MaxIssues)
    /\ jira_header = JiraColumns
    /\ error = ""
    /\ raw_incidents = NoTable
    /\ incidents = NoTable
    /\ jira = NoTable
    /\ jira_faults = NoTable
    /\ idx = 0
    /\ jidx = 0
    /\ keywords = <<>>
    /\ found = FALSE
    /\ matched_jira = NoRow
    /\ matches = <<>>
    /\ no_matches = <<>>
    /\ distribution = Unset
    /\ root_causes = Unset
    /\ resolution = Unset
    /\ report = Unset
    /\ output_file = Unset
    /\ first_run = Unset

\* the variables of one call of match_incidents_with_jira
mvars == <<jira_faults, idx, jidx, keywords, found, matched_jira, matches, no_matches>>

\* the results of the three analyze_ functions, the report and the file written
avars == <<distribution, root_causes, resolution, report, output_file, error>>

\* what no step of a run changes
fixed == <<cvars, clivars, imgvars, xvars, run, clock, incident_file, jira_file, jira_header,
           first_run>>

\* lines 18-22, 445
load_data ==
    /\ pc = "load"
    /\ raw_incidents' = read_csv(IncidentColumns, incident_file)
    /\ jira' = read_csv(jira_header, jira_file)
    /\ pc' = "clean"
    /\ UNCHANGED <<fixed, incidents, mvars, avars>>

\* line 446
CleanIncidents ==
    /\ pc = "clean"
    /\ dtype(raw_incidents, "report_name") = "object"
    /\ incidents' = clean_incident_data(raw_incidents)
    /\ pc' = "match"
    /\ UNCHANGED <<fixed, raw_incidents, jira, mvars, avars>>

\* line 28: when every name of the file is missing the column is float64, and the
\* .str accessor raises AttributeError on what dropna left of it
CleanIncidentsRaises ==
    /\ pc = "clean"
    /\ dtype(raw_incidents, "report_name") = "float64"
    /\ error' = "AttributeError"
    /\ pc' = "raised"
    /\ UNCHANGED <<fixed, raw_incidents, incidents, jira, mvars, distribution, root_causes,
                   resolution, report, output_file>>

\* lines 59-62: the call of line 453 begins
MatchBegin ==
    /\ pc = "match"
    /\ jira_faults' = fault_rows(jira)
    /\ matches' = <<>>
    /\ no_matches' = <<>>
    /\ idx' = 1
    /\ pc' = "row"
    /\ UNCHANGED <<fixed, raw_incidents, incidents, jira, jidx, keywords, found,
                   matched_jira, avars>>

\* lines 64-76: the outer loop takes its next row
MatchRow ==
    /\ pc = "row"
    /\ idx <= Len(incidents.rows)
    /\ found' = FALSE
    /\ matched_jira' = NoRow
    /\ keywords' = RowKeywords(incidents.rows[idx])
    /\ jidx' = 1
    /\ pc' = "scan"
    /\ UNCHANGED <<fixed, raw_incidents, incidents, jira, jira_faults, idx, matches,
                   no_matches, avars>>

\* a candidate below the threshold ends the inner loop, so that only the first
\* candidate is ever scored (a fault, for comparison)
ScanMiss_stop ==
    /\ pc = "scan"
    /\ jidx <= Len(jira_faults.rows)
    /\ match_count(keywords, IncidentName(incidents.rows[idx]), jira_faults.rows[jidx])
           < MatchThreshold
    /\ jidx' = Len(jira_faults.rows) + 1
    /\ UNCHANGED <<fixed, pc, raw_incidents, incidents, jira, jira_faults, idx, keywords,
                   found, matched_jira, matches, no_matches, avars>>

\* lines 78-93: a candidate below the threshold; the inner loop goes on
ScanMiss ==
    /\ pc = "scan"
    /\ jidx <= Len(jira_faults.rows)
    /\ match_count(keywords, IncidentName(incidents.rows[idx]), jira_faults.rows[jidx])
           < MatchThreshold
    /\ jidx' = jidx + 1
    /\ UNCHANGED <<fixed, pc, raw_incidents, incidents, jira, jira_faults, idx, keywords,
                   found, matched_jira, matches, no_matches, avars>>

\* a candidate at the threshold is bound and the inner loop goes on, without the
\* break of line 96 (a fault, for comparison)
ScanHit_no_break ==
    /\ pc = "scan"
    /\ jidx <= Len(jira_faults.rows)
    /\ match_count(keywords, IncidentName(incidents.rows[idx]), jira_faults.rows[jidx])
           >= MatchThreshold
    /\ found' = TRUE
    /\ matched_jira' = jira_faults.rows[jidx]
    /\ jidx' = jidx + 1
    /\ UNCHANGED <<fixed, pc, raw_incidents, incidents, jira, jira_faults, idx, keywords,
                   matches, no_matches, avars>>

\* lines 93-96: a candidate at the threshold is bound and the inner loop is left
ScanHit ==
    /\ pc = "scan"
    /\ jidx <= Len(jira_faults.rows)
    /\ match_count(keywords, IncidentName(incidents.rows[idx]), jira_faults.rows[jidx])
           >= MatchThreshold
    /\ found' = TRUE
    /\ matched_jira' = jira_faults.rows[jidx]
    /\ pc' = "append"
    /\ UNCHANGED <<fixed, raw_incidents, incidents, jira, jira_faults, idx, jidx, keywords,
                   matches, no_matches, avars>>

\* line 78: the inner loop has run out of candidates
ScanEnd ==
    /\ pc = "scan"
    /\ jidx > Len(jira_faults.rows)
    /\ pc' = "append"
    /\ UNCHANGED <<fixed, raw_incidents, incidents, jira, mvars, avars>>

\* a matched incident appended to both lists, as if line 103 were not an else (a
\* fault, for comparison)
AppendMatch_both ==
    /\ pc = "append"
    /\ found
    /\ matches' = Append(matches, [incident |-> incidents.rows[idx], jira |-> matched_jira])
    /\ no_matches' = Append(no_matches, incidents.rows[idx])
    /\ idx' = idx + 1
    /\ pc' = "row"
    /\ UNCHANGED <<fixed, raw_incidents, incidents, jira, jira_faults, jidx, keywords,
                   found, matched_jira, avars>>

\* a matched incident appended and its issue taken out of the candidates, as a
\* one-to-one assignment would do (a fault, for comparison)
AppendMatch_consume ==
    /\ pc = "append"
    /\ found
    /\ matches' = Append(matches, [incident |-> incidents.rows[idx], jira |-> matched_jira])
    /\ jira_faults' = Table(jira_faults.columns,
                            SubSeq(jira_faults.rows, 1, jidx - 1)
                                \o SubSeq(jira_faults.rows, jidx + 1, Len(jira_faults.rows)))
    /\ idx' = idx + 1
    /\ pc' = "row"
    /\ UNCHANGED <<fixed, raw_incidents, incidents, jira, jidx, keywords,
                   found, matched_jira, no_matches, avars>>

\* lines 98-102
AppendMatch ==
    /\ pc = "append"
    /\ found
    /\ matches' = Append(matches, [incident |-> incidents.rows[idx], jira |-> matched_jira])
    /\ idx' = idx + 1
    /\ pc' = "row"
    /\ UNCHANGED <<fixed, raw_incidents, incidents, jira, jira_faults, jidx, keywords,
                   found, matched_jira, no_matches, avars>>

\* lines 103-104
AppendNoMatch ==
    /\ pc = "append"
    /\ ~found
    /\ no_matches' = Append(no_matches, incidents.rows[idx])
    /\ idx' = idx + 1
    /\ pc' = "row"
    /\ UNCHANGED <<fixed, raw_incidents, incidents, jira, jira_faults, jidx, keywords,
                   found, matched_jira, matches, avars>>

\* line 106: the outer loop is over and the call returns
MatchReturn ==
    /\ pc = "row"
    /\ idx > Len(incidents.rows)
    /\ pc' = "distribution"
    /\ UNCHANGED <<fixed, raw_incidents, incidents, jira, mvars, avars>>

\* lines 108-151, 459: analyze_distribution(incidents, jira); its assignments of
\* lines 116-117 are made to the table it was passed
AnalyzeDistribution ==
    /\ pc = "distribution"
    /\ incidents' = with_parsed_dates(incidents)
    /\ jira_faults' = with_created_parsed(fault_rows(jira))
    /\ distribution' = distribution_results(incidents', jira_faults')
    /\ pc' = "root_causes"
    /\ UNCHANGED <<fixed, raw_incidents, jira, idx, jidx, keywords, found, matched_jira,
                   matches, no_matches, root_causes, resolution, report, output_file,
                   error>>

\* lines 153-181, 465
AnalyzeRootCauses ==
    /\ pc = "root_causes"
    /\ jira_faults' = fault_rows(jira)
    /\ root_causes' = root_cause_results(jira_faults')
    /\ pc' = "resolution"
    /\ UNCHANGED <<fixed, raw_incidents, incidents, jira, idx, jidx, keywords, found,
                   matched_jira, matches, no_matches, distribution, resolution, report,
                   output_file, error>>

\* lines 183-223, 471
AnalyzeResolution ==
    /\ pc = "resolution"
    /\ HasColumn(jira, "severity") => dtype(jira, "severity") = "object"
    /\ jira_faults' = fault_rows(jira)
    /\ resolution' = resolution_results(jira_faults')
    /\ pc' = "report"
    /\ UNCHANGED <<fixed, raw_incidents, incidents, jira, idx, jidx, keywords, found,
                   matched_jira, matches, no_matches, distribution, root_causes, report,
                   output_file, error>>

\* line 203: when the severity column is there and every severity of the file is
\* missing the column is float64, and the .str accessor raises AttributeError
AnalyzeResolutionRaises ==
    /\ pc = "resolution"
    /\ HasColumn(jira, "severity")
    /\ dtype(jira, "severity") = "float64"
    /\ jira_faults' = fault_rows(jira)
    /\ error' = "AttributeError"
    /\ pc' = "raised"
    /\ UNCHANGED <<fixed, raw_incidents, incidents, jira, idx, jidx, keywords, found,
                   matched_jira, matches, no_matches, distribution, root_causes, resolution,
                   report, output_file>>

\* lines 225-436, 477: the report, stamped with the time of the clock (line 230)
GenerateReport ==
    /\ pc = "report"
    /\ Len(incidents.rows) > 0
    /\ report' = [generated |-> clock,
                  body |-> report_body(incidents, jira, matches, no_matches,
                                       distribution, root_causes, resolution)]
    /\ pc' = "write"
    /\ UNCHANGED <<fixed, raw_incidents, incidents, jira, mvars, distribution, root_causes,
                   resolution, output_file, error>>

\* line 247: with no incident row the division by total_incidents raises
\* ZeroDivisionError and the run ends without a report
GenerateReportRaises ==
    /\ pc = "report"
    /\ Len(incidents.rows) = 0
    /\ error' = "ZeroDivisionError"
    /\ pc' = "raised"
    /\ UNCHANGED <<fixed, raw_incidents, incidents, jira, mvars, distribution, root_causes,
                   resolution, report, output_file>>

\* lines 480-481
WriteReport ==
    /\ pc = "write"
    /\ output_file' = report
    /\ pc' = "done"
    /\ UNCHANGED <<fixed, raw_incidents, incidents, jira, mvars, distribution, root_causes,
                   resolution, report, error>>

\* what a finished run leaves to be compared: how it ended, the match assignment
\* and the aggregates
Outcome ==
    [ended |-> pc,
     error |-> error,
     matches |-> matches,
     no_matches |-> no_matches,
     distribution |-> distribution,
     root_causes |-> root_causes,
     resolution |-> resolution,
     report |-> report]

\* the script is started again, later, on the same two files: a new process, whose
\* names are all unbound; OUTPUT_FILE is as the first run left it
RunAgain ==
    /\ pc \in {"done", "raised"}
    /\ run = "first"
    /\ first_run' = Outcome
    /\ run' = "second"
    /\ clock' = clock + 1
    /\ pc' = "load"
    /\ raw_incidents' = NoTable
    /\ incidents' = NoTable
    /\ jira' = NoTable
    /\ jira_faults' = NoTable
    /\ idx' = 0
    /\ jidx' = 0
    /\ keywords' = <<>>
    /\ found' = FALSE
    /\ matched_jira' = NoRow
    /\ matches' = <<>>
    /\ no_matches' = <<>>
    /\ distribution' = Unset
    /\ root_causes' = Unset
    /\ resolution' = Unset
    /\ report' = Unset
    /\ error' = ""
    /\ UNCHANGED <<cvars, clivars, imgvars, xvars, incident_file, jira_file, jira_header,
                   output_file>>

NextPipeline ==
    \/ load_data
    \/ CleanIncidents
    \/ CleanIncidentsRaises
    \/ MatchBegin
    \/ MatchRow
    \/ ScanMiss
    \/ ScanHit
    \/ ScanEnd
    \/ AppendMatch
    \/ AppendNoMatch
    \/ MatchReturn
    \/ AnalyzeDistribution
    \/ AnalyzeRootCauses
    \/ AnalyzeResolution
    \/ AnalyzeResolutionRaises
    \/ GenerateReport
    \/ GenerateReportRaises
    \/ WriteReport
    \/ RunAgain

SpecPipeline == InitPipeline /\ [][NextPipeline]_vars

-----------------------------------------------------------------------------
(* quality_analysis.py: one run of main() on files with all kinds of dates *)

\* the names of a run that has not started: nothing is bound yet
FreshRun ==
    /\ pc = "load"
    /\ run = "first"
    /\ clock = 0
    /\ error = ""
    /\ raw_incidents = NoTable
    /\ incidents = NoTable
    /\ jira = NoTable
    /\ jira_faults = NoTable
    /\ idx = 0
    /\ jidx = 0
    /\ keywords = <<>>
    /\ found = FALSE
    /\ matched_jira = NoRow
    /\ matches = <<>>
    /\ no_matches = <<>>
    /\ distribution = Unset
    /\ root_causes = Unset
    /\ resolution = Unset
    /\ report = Unset
    /\ output_file = Unset
    /\ first_run = Unset

\* blank screen, no customer, no date, P2
IncidentD ==
    [report_name |-> s_blank_screen, incident_date |-> NaN, level |-> <<"P", "2">>,
     customer |-> NaN, team |-> s_frontend]

DateIncidentSamples == {IncidentA, IncidentB, IncidentD, IncidentN}

\* a fault whose creation date does not parse: in progress, P1
IssueJ4 ==
    [issue_type |-> s_fault,
     summary |-> <<"u767b", "u5f55", "u5931", "u8d25">>,
     description |-> NaN,
     customer_name |-> NaN,
     created |-> s_undated,
     status |-> <<"u5904", "u7406", "u4e2d">>,
     severity |-> <<"P", "1", "-", "u4e25", "u91cd">>,
     env |-> NaN, root_cause |-> NaN, defect_type |-> NaN, solution |-> NaN]

\* a fault without a creation date, created in no month: done, P0
IssueJ5 ==
    [issue_type |-> s_fault,
     summary |-> NaN,
     description |-> NaN,
     customer_name |-> NaN,
     created |-> NaN,
     status |-> s_done,
     severity |-> <<"P", "0", "-", "u963b", "u585e">>,
     env |-> NaN, root_cause |-> NaN, defect_type |-> NaN, solution |-> NaN]

DateIssueSamples == {IssueJ1, IssueJ2, IssueJ3, IssueJ4, IssueJ5}

InitDates ==
    /\ ScriptsIdle
    /\ ClassifierIdle
    /\ CliIdle
    /\ ImagesIdle
    /\ FreshRun
    /\ incident_file \in Files(DateIncidentSamples, MaxIncidents)
    /\ jira_file \in Files(DateIssueSamples, MaxIssues)
    /\ jira_header = JiraColumns

\* the steps of one run of main()
NextRun ==
    \/ load_data
    \/ CleanIncidents
    \/ CleanIncidentsRaises
    \/ MatchBegin
    \/ MatchRow
    \/ ScanMiss
    \/ ScanHit
    \/ ScanEnd
    \/ AppendMatch
    \/ AppendNoMatch
    \/ MatchReturn
    \/ AnalyzeDistribution
    \/ AnalyzeRootCauses
    \/ AnalyzeResolution
    \/ AnalyzeResolutionRaises
    \/ GenerateReport
    \/ GenerateReportRaises
    \/ WriteReport

SpecDates == InitDates /\ [][NextRun]_vars

-----------------------------------------------------------------------------
(* quality_analysis.py: one run of main() on issue files without some columns *)

\* the columns of the issue file the script reads only if they are there (lines
\* 81, 141, 147, 160, 167, 177, 202)
OptionalColumns ==
    {"customer_name", "severity", "env", "root_cause", "defect_type", "solution"}

\* the header of an issue file without the columns of absent
HeaderWithout(absent) ==
    LET Kept(c) == c \notin absent
    IN  SelectSeq(JiraColumns, Kept)

\* the whole header, the header without one optional column, for each of them,
\* and the header without any
HeaderSamples ==
    {HeaderWithout({})}
    \cup {HeaderWithout({c}) : c \in OptionalColumns}
    \cup {HeaderWithout(OptionalColumns)}

\* the line of a file that has the columns of header only
Project(row, header) == [c \in {header[k] : k \in 1..Len(header)} |-> row[c]]

ColumnIncidentSamples == {IncidentA, IncidentB, IncidentN}

InitColumns ==
    /\ ScriptsIdle
    /\ ClassifierIdle
    /\ CliIdle
    /\ ImagesIdle
    /\ FreshRun
    /\ incident_file \in Files(ColumnIncidentSamples, MaxIncidents)
    /\ jira_header \in HeaderSamples
    /\ \E file \in Files(IssueSamples, MaxIssues) :
          jira_file = [k \in 1..Len(file) |-> Project(file[k], jira_header)]

SpecColumns == InitColumns /\ [][NextRun]_vars

-----------------------------------------------------------------------------
(* match_incidents_with_jira called on a table as loaded, without the cleaning *)

\* a line whose report name and customer are whitespace and whose other cells are
\* missing
IncidentW ==
    [report_name |-> <<" ">>, incident_date |-> NaN, level |-> NaN, customer |-> <<" ">>,
     team |-> NaN]

MatchIncidentSamples == {IncidentA, IncidentB, IncidentN, IncidentW}

\* lines 56-106 entered with any incident table and any issue table
InitMatch ==
    /\ ScriptsIdle
    /\ ClassifierIdle
    /\ CliIdle
    /\ ImagesIdle
    /\ pc = "match"
    /\ run = "first"
    /\ clock = 0
    /\ incident_file \in Files(MatchIncidentSamples, MaxIncidents)
    /\ jira_file \in Files(IssueSamples, MaxIssues)
    /\ jira_header = JiraColumns
    /\ error = ""
    /\ raw_incidents = read_csv(IncidentColumns, incident_file)
    /\ incidents = raw_incidents
    /\ jira = read_csv(jira_header, jira_file)
    /\ jira_faults = NoTable
    /\ idx = 0
    /\ jidx = 0
    /\ keywords = <<>>
    /\ found = FALSE
    /\ matched_jira = NoRow
    /\ matches = <<>>
    /\ no_matches = <<>>
    /\ distribution = Unset
    /\ root_causes = Unset
    /\ resolution = Unset
    /\ report = Unset
    /\ output_file = Unset
    /\ first_run = Unset

NextMatch ==
    \/ MatchBegin
    \/ MatchRow
    \/ ScanMiss
    \/ ScanHit
    \/ ScanEnd
    \/ AppendMatch
    \/ AppendNoMatch
    \/ MatchReturn

SpecMatch == InitMatch /\ [][NextMatch]_vars

-----------------------------------------------------------------------------
(* match_incidents_with_jira on incidents and issues that score in every way *)

\* "Didi" + 的 + incident report, customer Didi: the customer is also in the name
IncidentC ==
    [report_name |-> <<"u6ef4", "u6ef4", "u7684", "u6545", "u969c", "u62a5", "u544a">>,
     incident_date |-> <<"2", "0", "2", "5", "-", "0", "4", "-", "0", "1">>,
     level |-> <<"P", "1">>, customer |-> s_didi, team |-> s_backend]

\* a fault: summary Didi + document + sync + login + blank screen, description the
\* first ten characters of the name of incident E
IssueJ6 ==
    [issue_type |-> s_fault,
     summary |-> <<"u6ef4", "u6ef4", "u6587", "u6863", "u540c", "u6b65",
                   "u767b", "u5f55", "u767d", "u5c4f">>,
     description |-> <<"u733f", "u8f85", "u5bfc", "u8868", "u5355", "u63d0", "u4ea4",
                       "u540e", "u9875", "u9762">>,
     customer_name |-> NaN,
     created |-> <<"2", "0", "2", "5", "-", "0", "4", "-", "0", "2">>,
     status |-> s_done,
     severity |-> <<"P", "1", "-", "u4e25", "u91cd">>,
     env |-> NaN, root_cause |-> NaN, defect_type |-> NaN, solution |-> NaN]

ScanIncidentSamples == {IncidentA, IncidentB, IncidentC, IncidentE, IncidentN}

ScanIssueSamples == {IssueJ1, IssueJ2, IssueJ3, IssueJ6}

\* lines 56-106 entered with any incident table and any issue table
InitScan ==
    /\ ScriptsIdle
    /\ ClassifierIdle
    /\ CliIdle
    /\ ImagesIdle
    /\ pc = "match"
    /\ run = "first"
    /\ clock = 0
    /\ incident_file \in Files(ScanIncidentSamples, MaxIncidents)
    /\ jira_file \in Files(ScanIssueSamples, MaxIssues)
    /\ jira_header = JiraColumns
    /\ error = ""
    /\ raw_incidents = read_csv(IncidentColumns, incident_file)
    /\ incidents = raw_incidents
    /\ jira = read_csv(jira_header, jira_file)
    /\ jira_faults = NoTable
    /\ idx = 0
    /\ jidx = 0
    /\ keywords = <<>>
    /\ found = FALSE
    /\ matched_jira = NoRow
    /\ matches = <<>>
    /\ no_matches = <<>>
    /\ distribution = Unset
    /\ root_causes = Unset
    /\ resolution = Unset
    /\ report = Unset
    /\ output_file = Unset
    /\ first_run = Unset

SpecScan == InitScan /\ [][NextMatch]_vars

-----------------------------------------------------------------------------
(* analyze.py *)

s_summary == <<"s", "u", "m", "m", "a", "r", "y">>
s_client == <<"c", "l", "i", "e", "n", "t">>
s_search == <<"s", "e", "a", "r", "c", "h">>
s_incidents == <<"i", "n", "c", "i", "d", "e", "n", "t", "s">>
s_products == <<"p", "r", "o", "d", "u", "c", "t", "s">>
s_export == <<"e", "x", "p", "o", "r", "t">>
s_analyze_py == <<"a", "n", "a", "l", "y", "z", "e", ".", "p", "y">>

\* load_analyzer(): an analyzer holding the entries of the files of the data directory
load_analyzer == [entries |-> "2025/*.md"]

\* line 133 compared as is, without lower()
cmd_exact(args) == args[2]

\* line 133: cmd = sys.argv[1].lower()   (sys.argv[k] is args[k + 1])
cmd(args) == lower(args[2])

\* lines 136-149: the branch of the if/elif chain that is taken
branch(args) ==
    IF cmd(args) = s_summary THEN "cmd_summary"
    ELSE IF cmd(args) = s_client /\ Len(args) > 2 THEN "cmd_client"
    ELSE IF cmd(args) = s_search /\ Len(args) > 2 THEN "cmd_search"
    ELSE IF cmd(args) = s_incidents THEN "cmd_incidents"
    ELSE IF cmd(args) = s_products THEN "cmd_products"
    ELSE IF cmd(args) = s_export THEN "cmd_export"
    ELSE "print_help"

\* a call of a handler on the analyzer; arg is None for a handler that takes no argument
Call(handler, arg) == [handler |-> handler, analyzer |-> analyzer, arg |-> arg]

\* the command lines of the model: at most MaxArgs arguments after the subcommand
MaxArgs == 2

\* s.upper()
upper(s) ==
    [k \in 1..Len(s) |->
        IF \E j \in 1..Len(LowerChars) : LowerChars[j] = s[k]
        THEN UpperChars[CHOOSE j \in 1..Len(LowerChars) : LowerChars[j] = s[k]]
        ELSE s[k]]

\* s.capitalize()
capitalize(s) == IF s = <<>> THEN s ELSE upper(SubSeq(s, 1, 1)) \o SubSeq(s, 2, Len(s))

CommandNames == {s_summary, s_client, s_search, s_incidents, s_products, s_export}

CommandSamples ==
    UNION {{c, upper(c), capitalize(c)} : c \in CommandNames}
    \cup {<<>>, <<"h", "e", "l", "p">>, SubSeq(s_summary, 1, 6), s_summary \o <<" ">>,
          s_client \o <<"s">>, <<"-">> \o s_export}

ArgSamples == {<<"u6ef4", "u6ef4">>, <<"u6545", "u969c">>}

ArgLists == UNION {[1..n -> ArgSamples] : n \in 0..MaxArgs}

ArgvSamples ==
    {<<s_analyze_py>>} \cup {<<s_analyze_py, c>> \o rest : c \in CommandSamples, rest \in ArgLists}

InitCli ==
    /\ ScriptsIdle
    /\ ClassifierIdle
    /\ PipelineIdle
    /\ ImagesIdle
    /\ apc = "start"
    /\ argv \in ArgvSamples
    /\ analyzer = Unset
    /\ calls = <<>>
    /\ help_printed = 0
    /\ json_written = FALSE

\* lines 129-131: no subcommand
PrintHelpNoCommand ==
    /\ apc = "start"
    /\ Len(argv) < 2
    /\ help_printed' = help_printed + 1
    /\ apc' = "done"
    /\ UNCHANGED <<cvars, pvars, imgvars, xvars, argv, analyzer, calls, json_written>>

\* lines 133-134
LoadAnalyzer ==
    /\ apc = "start"
    /\ Len(argv) >= 2
    /\ analyzer' = load_analyzer
    /\ apc' = "dispatch"
    /\ UNCHANGED <<cvars, pvars, imgvars, xvars, argv, calls, help_printed, json_written>>

\* lines 136-137
CmdSummary ==
    /\ apc = "dispatch"
    /\ branch(argv) = "cmd_summary"
    /\ calls' = Append(calls, Call("cmd_summary", None))
    /\ apc' = "done"
    /\ UNCHANGED <<cvars, pvars, imgvars, xvars, argv, analyzer, help_printed, json_written>>

\* lines 138-139
CmdClient ==
    /\ apc = "dispatch"
    /\ branch(argv) = "cmd_client"
    /\ calls' = Append(calls, Call("cmd_client", argv[3]))
    /\ apc' = "done"
    /\ UNCHANGED <<cvars, pvars, imgvars, xvars, argv, analyzer, help_printed, json_written>>

\* lines 140-141
CmdSearch ==
    /\ apc = "dispatch"
    /\ branch(argv) = "cmd_search"
    /\ calls' = Append(calls, Call("cmd_search", argv[3]))
    /\ apc' = "done"
    /\ UNCHANGED <<cvars, pvars, imgvars, xvars, argv, analyzer, help_printed, json_written>>

\* lines 142-143
CmdIncidents ==
    /\ apc = "dispatch"
    /\ branch(argv) = "cmd_incidents"
    /\ calls' = Append(calls, Call("cmd_incidents", None))
    /\ apc' = "done"
    /\ UNCHANGED <<cvars, pvars, imgvars, xvars, argv, analyzer, help_printed, json_written>>

\* lines 144-145
CmdProducts ==
    /\ apc = "dispatch"
    /\ branch(argv) = "cmd_products"
    /\ calls' = Append(calls, Call("cmd_products", None))
    /\ apc' = "done"
    /\ UNCHANGED <<cvars, pvars, imgvars, xvars, argv, analyzer, help_printed, json_written>>

\* lines 146-147, and cmd_export (lines 111-114), which writes the JSON file
CmdExport ==
    /\ apc = "dispatch"
    /\ branch(argv) = "cmd_export"
    /\ calls' = Append(calls, Call("cmd_export", None))
    /\ json_written' = TRUE
    /\ apc' = "done"
    /\ UNCHANGED <<cvars, pvars, imgvars, xvars, argv, analyzer, help_printed>>

\* lines 148-149
PrintHelpFallback ==
    /\ apc = "dispatch"
    /\ branch(argv) = "print_help"
    /\ help_printed' = help_printed + 1
    /\ apc' = "done"
    /\ UNCHANGED <<cvars, pvars, imgvars, xvars, argv, analyzer, calls, json_written>>

NextCli ==
    \/ PrintHelpNoCommand
    \/ LoadAnalyzer
    \/ CmdSummary
    \/ CmdClient
    \/ CmdSearch
    \/ CmdIncidents
    \/ CmdProducts
    \/ CmdExport
    \/ PrintHelpFallback

SpecCli == InitCli /\ [][NextCli]_vars

-----------------------------------------------------------------------------
(* remove_base64_images.py *)

\* the literal parts of the pattern of line 25
s_image_open == <<"!", "[">>
s_data_image == <<"]", "(", "d", "a", "t", "a", ":", "i", "m", "a", "g", "e", "/">>
s_base64 == <<";", "b", "a", "s", "e", "6", "4", ",">>

\* line 32: the replacement text
s_image_removed == <<"[", "i", "m", "a", "g", "e", " ", "r", "e", "m", "o", "v", "e", "d", "]">>

\* s.startswith(lit, k - 1): lit is in s at position k
StartsWithAt(s, k, lit) ==
    /\ k >= 1
    /\ k + Len(lit) - 1 <= Len(s)
    /\ SubSeq(s, k, k + Len(lit) - 1) = lit

\* the position of the first ch in s at or after position k, 0 when there is none
FirstIndex(s, ch, k) ==
    IF \E a \in k..Len(s) : s[a] = ch
    THEN CHOOSE a \in k..Len(s) : s[a] = ch /\ \A b \in k..(a - 1) : s[b] # ch
    ELSE 0

\* line 25: where a match of the pattern that starts at position i ends, 0 when the
\* pattern does not match there.  No class of the pattern can cross the character that
\* follows it ([^\]]* stops at the first "]", [^;]+ at the first ";", [^)]+ at the
\* first ")"), so a match at i, if any, is unique.
MatchEnd(s, i) ==
    IF ~StartsWithAt(s, i, s_image_open) THEN 0
    ELSE LET j == FirstIndex(s, "]", i + 2)
         IN IF j = 0 \/ ~StartsWithAt(s, j, s_data_image) THEN 0
            ELSE LET t == j + Len(s_data_image)
                     p == FirstIndex(s, ";", t)
                 IN IF p = 0 \/ p = t \/ ~StartsWithAt(s, p, s_base64) THEN 0
                    ELSE LET d == p + Len(s_base64)
                             q == FirstIndex(s, ")", d)
                         IN IF q = 0 \/ q = d THEN 0 ELSE q

\* the start of the leftmost match at or after position k, 0 when there is none
search(s, k) ==
    IF \E i \in k..Len(s) : MatchEnd(s, i) > 0
    THEN CHOOSE i \in k..Len(s) :
             MatchEnd(s, i) > 0 /\ \A b \in k..(i - 1) : MatchEnd(s, b) = 0
    ELSE 0

\* line 28: len(re.findall(pattern, s)), scanning from position k: leftmost matches,
\* each search resuming after the end of the previous match
RECURSIVE findall(_, _)
findall(s, k) ==
    LET i == search(s, k)
    IN IF i = 0 THEN 0 ELSE 1 + findall(s, MatchEnd(s, i) + 1)

\* line 32: re.sub(pattern, '[image removed]', s), scanning from position k
RECURSIVE sub(_, _)
sub(s, k) ==
    LET i == search(s, k)
    IN IF i = 0 THEN SubSeq(s, k, Len(s))
       ELSE SubSeq(s, k, i - 1) \o s_image_removed \o sub(s, MatchEnd(s, i) + 1)

\* the pieces the files of the model are made of
s_alt == <<"[", "a", "]">>
s_data_url == <<"(", "d", "a", "t", "a", ":", "i", "m", "a", "g", "e", "/", "p",
                ";", "b", "a", "s", "e", "6", "4", ",", "x", ")">>
s_no_data == <<"(", "d", "a", "t", "a", ":", "i", "m", "a", "g", "e", "/", "p",
               ";", "b", "a", "s", "e", "6", "4", ",", ")">>
s_text == <<"t", "\n">>

Fragments == {<<"!">>, s_alt, s_data_url, s_no_data, s_text}

\* a file is at most MaxFragments pieces, one after the other
MaxFragments == 5

RECURSIVE Join(_)
Join(pieces) == IF pieces = <<>> THEN <<>> ELSE Head(pieces) \o Join(Tail(pieces))

MarkdownSamples == {Join(pieces) : pieces \in UNION {[1..n -> Fragments] : n \in 0..MaxFragments}}

\* the script is run on a file twice, each run rewriting the file in place
MaxPasses == 2

InitImages ==
    /\ ScriptsIdle
    /\ ClassifierIdle
    /\ PipelineIdle
    /\ CliIdle
    /\ rpc = "start"
    /\ md_file \in MarkdownSamples
    /\ passes = 0
    /\ found_images = <<>>
    /\ first_output = Unset

\* lines 10-42 on a file that is not empty, with output_file = input_file (lines 15-16)
RemoveImages ==
    /\ rpc = "start"
    /\ Len(md_file) > 0
    /\ found_images' = Append(found_images, findall(md_file, 1))
    /\ md_file' = sub(md_file, 1)
    /\ first_output' = IF passes = 0 THEN sub(md_file, 1) ELSE first_output
    /\ passes' = passes + 1
    /\ rpc' = "done"
    /\ UNCHANGED <<cvars, pvars, clivars, xvars>>

\* lines 10-41 on an empty file: the file is written (line 37), then line 41 divides
\* by original_size = 0
RemoveImagesRaises ==
    /\ rpc = "start"
    /\ Len(md_file) = 0
    /\ found_images' = Append(found_images, findall(md_file, 1))
    /\ md_file' = sub(md_file, 1)
    /\ first_output' = IF passes = 0 THEN sub(md_file, 1) ELSE first_output
    /\ passes' = passes + 1
    /\ rpc' = "raised"
    /\ UNCHANGED <<cvars, pvars, clivars, xvars>>

\* the script is started again on the file it wrote
RunOnOutput ==
    /\ rpc \in {"done", "raised"}
    /\ passes < MaxPasses
    /\ rpc' = "start"
    /\ UNCHANGED <<cvars, pvars, clivars, xvars, md_file, passes, found_images, first_output>>

NextImages ==
    \/ RemoveImages
    \/ RemoveImagesRaises
    \/ RunOnOutput

SpecImages == InitImages /\ [][NextImages]_vars

-----------------------------------------------------------------------------
(* cto_weekly_report_analyzer.py *)

\* lines 51-58
KNOWN_CLIENTS ==
  << <<"u6ef4", "u6ef4">>,
     <<"O", "P", "P", "O">>,
     <<"o", "p", "p", "o">>,
     <<"u597d", "u672a", "u6765">>,
     <<"u4eac", "u4e1c">>,
     <<"u5fae", "u4f17", "u94f6", "u884c">>,
     <<"u62db", "u5546", "u91d1", "u79d1">>,
     <<"u683c", "u529b">>,
     <<"T", "C", "L">>,
     <<"u65b0", "u534e", "u4e09">>,
     <<"u957f", "u4eae", "u79d1", "u6280">>,
     <<"u4e91", "u9cb8", "u667a", "u80fd">>,
     <<"u4f5c", "u4e1a", "u5e2e">>,
     <<"u8fb9", "u950b", "u6e38", "u620f">>,
     <<"u552f", "u54c1", "u4f1a">>,
     <<"u7f51", "u6613">>,
     <<"u7c73", "u54c8", "u6e38">>,
     <<"u5c0f", "u7ea2", "u4e66">>,
     <<"u767e", "u5ea6">>,
     <<"u559c", "u9a6c", "u62c9", "u96c5">>,
     <<"u5e7f", "u4e1c", "u7535", "u4fe1">>,
     <<"u4e2d", "u4fe1", "u5efa", "u6295">>,
     <<"u5929", "u7ffc", "u4e91", "u76d8">>,
     <<"u4e2d", "u7535", "u91cf", "u5b50">>,
     <<"u82cf", "u5dde", "u516c", "u5b89">>,
     <<"u82cf", "u5dde", "u56fd", "u53d1">>,
     <<"u733f", "u8f85", "u5bfc">>,
     <<"u4e50", "u4fe1">>,
     <<"u4e5d", "u6c5f", "u94f6", "u884c">>,
     <<"u62db", "u5546", "u57fa", "u91d1">>,
     <<"u8de8", "u8d8a", "u901f", "u8fd0">>,
     <<"u4e2d", "u5e7f", "u6838">>,
     <<"u534e", "u4e3a">>,
     <<"u535a", "u7eb3">>,
     <<"u4e2d", "u8239">>,
     <<"u6d77", "u4fe1">>,
     <<"u84dd", "u4fe1">>,
     <<"u5361", "u65af", "u67ef">>,
     <<"u5b9c", "u5bbe", "u8fb0", "u6d77">>,
     <<"u6b66", "u6c49", "u94c1", "u8def", "u5c40">>,
     <<"u56db", "u5ddd", "u51c6", "u5219">> >>

\* 'N/A' (line 266)
s_na == <<"N", "/", "A">>

\* the characters the \s of line 82 matches, among those of the model
RegexSpace == Whitespace

\* the first position at or after k that holds no space character (Len(s) + 1 when
\* the rest of s is space)
SkipSpace(s, k) ==
    IF \E a \in k..Len(s) : s[a] \notin RegexSpace
    THEN CHOOSE a \in k..Len(s) :
             s[a] \notin RegexSpace /\ \A b \in k..(a - 1) : s[b] \in RegexSpace
    ELSE Len(s) + 1

\* line 82 with re.MULTILINE: where a match of ^[#]{1,2}\s*(\d{8}) that starts at
\* position i ends, 0 when there is none.  ^ is the start of the text or the place
\* after a newline; a second # must be taken when it is there, for a # is neither
\* space nor digit.
HeaderEnd(s, i) ==
    IF ~(i <= Len(s) /\ s[i] = "#" /\ (i = 1 \/ s[i - 1] = "\n")) THEN 0
    ELSE LET h == IF i + 1 <= Len(s) /\ s[i + 1] = "#" THEN i + 2 ELSE i + 1
             d == SkipSpace(s, h)
         IN  IF d + 7 <= Len(s) /\ \A k \in d..(d + 7) : IsDigit(s[k]) THEN d + 7 ELSE 0

\* the start of the leftmost date header at or after position k, 0 when there is none
NextHeader(s, k) ==
    IF \E i \in k..Len(s) : HeaderEnd(s, i) > 0
    THEN CHOOSE i \in k..Len(s) :
             HeaderEnd(s, i) > 0 /\ \A b \in k..(i - 1) : HeaderEnd(s, b) = 0
    ELSE 0

\* line 83: re.split(date_pattern, s) from position k on: the text before a header,
\* the 8 digits of the header, and so on, ending with the text after the last header
RECURSIVE split(_, _)
split(s, k) ==
    LET i == NextHeader(s, k)
    IN  IF i = 0 THEN <<SubSeq(s, k, Len(s))>>
        ELSE <<SubSeq(s, k, i - 1), SubSeq(s, HeaderEnd(s, i) - 7, HeaderEnd(s, i))>>
                 \o split(s, HeaderEnd(s, i) + 1)

\* lines 103-110: the entry of a section; of the fields of WeeklyEntry the model
\* keeps the date, the raw content and the clients
parse_section(date_str, content) ==
    [date |-> date_str,
     raw_content |-> content,
     clients |-> {KNOWN_CLIENTS[k] : k \in {j \in 1..Len(KNOWN_CLIENTS) :
                                               Contains(KNOWN_CLIENTS[j], content)}}]

\* lines 83-99: the entries of a file, one for each i = 1, 3, 5, ... below
\* len(sections) - 1   (sections[i] of the code is sections[i + 1] here)
file_entries(content) ==
    LET sections == split(content, 1)
        steps == {i \in 1..(Len(sections) - 2) : i % 2 = 1}
    IN  [k \in 1..Cardinality(steps) |-> parse_section(sections[2 * k], sections[2 * k + 1])]

\* lines 95-97: the mentions after the clients of the new entries are counted
count_mentions(mentions, new) ==
    LET seen == DOMAIN mentions \cup UNION {new[k].clients : k \in 1..Len(new)}
    IN  [c \in seen |->
            (IF c \in DOMAIN mentions THEN mentions[c] ELSE 0)
            + Cardinality({k \in 1..Len(new) : c \in new[k].clients})]

\* an introduction, then two weeks, the latest first, Didi in both
FileNewestFirst ==
    <<"i", "n", "t", "r", "o", "\n", "#", " ", "2", "0", "2", "5", "0", "1", "1",
      "3", "\n", "u6ef4", "u6ef4", " ", "O", "P", "P", "O", "\n", "#", "#", " ",
      "2", "0", "2", "5", "0", "1", "0", "6", "\n", "u6ef4", "u6ef4", "\n">>

\* one week whose content holds a line that begins with three #
FileFakeHeader ==
    <<"#", "#", " ", "2", "0", "2", "5", "0", "2", "0", "3", "\n", "#", "#", "#",
      " ", "2", "0", "2", "5", "0", "2", "1", "0", "\n", "u767e", "u5ea6", "\n">>

\* a # on a line of its own, the date on the next line
FileSplitHeader ==
    <<"#", "\n", "2", "0", "2", "5", "0", "1", "2", "0", "\n">>

\* two weeks, the earliest first
FileOldestFirst ==
    <<"#", " ", "2", "0", "2", "5", "0", "3", "0", "3", "\n", "u4eac", "u4e1c",
      "\n", "#", " ", "2", "0", "2", "5", "0", "3", "1", "0", "\n", "u4eac",
      "u4e1c", " ", "o", "p", "p", "o", "\n">>

\* text without a date header
FileNoHeader ==
    <<"n", "o", "t", "e", "s", " ", "u6ef4", "u6ef4", "\n">>

\* an empty file
FileEmpty == <<>>

FileSamples ==
    {FileEmpty, FileNewestFirst, FileFakeHeader, FileSplitHeader, FileOldestFirst,
     FileNoHeader}

\* the data directory holds at most MaxFiles files
MaxFiles == 2

\* main() begins: the analyzer of line 396, the files of line 402 in sorted order
InitWeekly ==
    /\ ClassifierIdle
    /\ PipelineIdle
    /\ CliIdle
    /\ ImagesIdle
    /\ MonthlyIdle
    /\ SummaryIdle
    /\ wpc = "load"
    /\ md_files \in UNION {[1..n -> FileSamples] : n \in 0..MaxFiles}
    /\ loaded = <<>>
    /\ entries = <<>>
    /\ all_clients = {}
    /\ client_mentions = <<>>
    /\ period = Unset
    /\ date_range = Unset

\* each file replaces the entries of the files before it (a fault, for comparison)
LoadMarkdownFile_replace ==
    /\ wpc = "load"
    /\ md_files # <<>>
    /\ entries' = file_entries(Head(md_files))
    /\ all_clients' = all_clients \cup UNION {e.clients : e \in {entries'[k] : k \in 1..Len(entries')}}
    /\ client_mentions' = count_mentions(client_mentions, file_entries(Head(md_files)))
    /\ loaded' = Append(loaded, Head(md_files))
    /\ md_files' = Tail(md_files)
    /\ UNCHANGED <<cvars, pvars, clivars, imgvars, movars, svars, wpc, period, date_range>>

\* lines 402-404, 76-101: load_markdown_file on the next file of the directory
LoadMarkdownFile ==
    /\ wpc = "load"
    /\ md_files # <<>>
    /\ LET new == file_entries(Head(md_files))
       IN  /\ entries' = entries \o new
           /\ all_clients' = all_clients \cup UNION {new[k].clients : k \in 1..Len(new)}
           /\ client_mentions' = count_mentions(client_mentions, new)
    /\ loaded' = Append(loaded, Head(md_files))
    /\ md_files' = Tail(md_files)
    /\ UNCHANGED <<cvars, pvars, clivars, imgvars, movars, svars, wpc, period, date_range>>

\* the date of an entry of the list, other when the list is empty
entry_date(list, k, other) == IF list # <<>> THEN list[k].date ELSE other

\* lines 407, 245-267: the summary, of which the model keeps the analysis period
GetExecutiveSummary ==
    /\ wpc = "load"
    /\ md_files = <<>>
    /\ period' = [start |-> entry_date(entries, Len(entries), s_na),
                  end |-> entry_date(entries, 1, s_na)]
    /\ wpc' = "export"
    /\ UNCHANGED <<cvars, pvars, clivars, imgvars, movars, svars, md_files, loaded, entries,
                   all_clients, client_mentions, date_range>>

\* lines 411, 373-389: the exported analysis, of which the model keeps the date range
ExportAnalysis ==
    /\ wpc = "export"
    /\ date_range' = [start |-> entry_date(entries, Len(entries), None),
                      end |-> entry_date(entries, 1, None)]
    /\ wpc' = "done"
    /\ UNCHANGED <<cvars, pvars, clivars, imgvars, movars, svars, md_files, loaded, entries,
                   all_clients, client_mentions, period>>

NextWeekly ==
    \/ LoadMarkdownFile
    \/ GetExecutiveSummary
    \/ ExportAnalysis

SpecWeekly == InitWeekly /\ [][NextWeekly]_vars

-----------------------------------------------------------------------------
(* analyze_saas_monthly.py, beside analyze_saas_private.py on the same export *)

\* lines 26-33; lines 27-28 are lines 27-28 of classify_deployment
is_saas(row) ==
    LET env == RowEnv(row)
        customer == RowCustomer(row)
    IN  \* line 29
        IF Contains(s_SaaS, env) \/ Contains(s_saas, lower(env)) THEN TRUE
        \* line 31
        ELSE IF customer = s_SaaS_customer \/ customer = s_SaaS THEN TRUE
        \* line 33
        ELSE FALSE

\* values of the defect-environment column: missing, 'SaaS' + production
\* environment, private deployment, production environment
MonthlyEnvSamples ==
    { NaN,
      <<"S", "a", "a", "S", "u751f", "u4ea7", "u73af", "u5883">>,
      <<"u79c1", "u6709", "u5316", "u90e8", "u7f72">>,
      <<"u751f", "u4ea7", "u73af", "u5883">> }

\* values of the customer-name column: missing, 'SaaS' + customer, 'SaaS',
\* 'SaaS' + trial, Futian Motors
MonthlyCustomerSamples ==
    { NaN,
      s_SaaS_customer,
      s_SaaS,
      <<"S", "a", "a", "S", "u8bd5", "u7528">>,
      <<"u798f", "u7530", "u6c7d", "u8f66">> }

\* both scripts have read the same export and kept its bug rows (line 20 of
\* analyze_saas_monthly.py, line 20 of analyze_saas_private.py)
InitMonthly ==
    /\ WeeklyIdle
    /\ SummaryIdle
    /\ PipelineIdle
    /\ CliIdle
    /\ ImagesIdle
    /\ cpc = "loaded"
    /\ mopc = "loaded"
    /\ \E n \in 1..MaxRows :
          \E e \in [1..n -> MonthlyEnvSamples], c \in [1..n -> MonthlyCustomerSamples] :
              bug_df = BugTable(e, c)
    /\ deployment_col = <<>>
    /\ saas_df = <<>>
    /\ private_df = <<>>
    /\ unclassified_df = <<>>
    /\ monthly_saas_df = <<>>

\* line 35: saas_df = bug_df[bug_df.apply(is_saas, axis=1)], as the index labels
\* of the rows kept
FilterSaaS ==
    /\ mopc = "loaded"
    /\ monthly_saas_df' =
           [k \in 1..Len(SelectSeq(bug_df, is_saas)) |-> SelectSeq(bug_df, is_saas)[k].name]
    /\ mopc' = "filtered"
    /\ UNCHANGED <<cvars, pvars, clivars, imgvars, wvars, svars>>

NextMonthly ==
    \/ ApplyClassify
    \/ Separate
    \/ FilterSaaS

SpecMonthly == InitMonthly /\ [][NextMonthly]_vars

-----------------------------------------------------------------------------
(* quality_summary.py *)

\* the columns of the issue table the model keeps: issue type, discovery
\* environment, customer name, status, creation date.  The severity and the
\* defect-type columns, which the code looks up and may not find (lines 80-90,
\* 117, 134), are not in the export of the model.
SummaryColumns == <<"issue_type", "env", "customer_name", "status", "created">>

\* line 73
bug_types == {s_fault, s_defect, <<"B", "u", "g">>, <<"b", "u", "g">>}

\* lines 95, 96: the alternatives of the two patterns
saas_markers == {<<"S", "a", "a", "S", "u751f", "u4ea7", "u73af", "u5883">>, s_SaaS_customer}
private_markers == {<<"u79c1", "u6709", "u5316", "u5ba2", "u6237", "u751f", "u4ea7", "u73af", "u5883">>, <<"u79c1", "u6709", "u5316", "u5ba2", "u6237">>}

\* ','.join(cells)
RECURSIVE JoinComma(_)
JoinComma(cells) ==
    IF cells = <<>> THEN <<>>
    ELSE IF Len(cells) = 1 THEN cells[1]
    ELSE cells[1] \o <<",">> \o JoinComma(Tail(cells))

\* line 94: ','.join(x.astype(str)) over the cells of a row, in column order
row_str(tbl, row) == JoinComma([k \in 1..Len(tbl.columns) |-> str(row[tbl.columns[k]])])

\* Series.str.contains(a|b, case=False) on one text: some alternative is found,
\* letter case ignored
contains_ignore_case(alternatives, s) ==
    \E a \in alternatives : Contains(lower(a), lower(s))

\* line 74: the rows whose issue type is a bug type
bugs_of(tbl) ==
    LET IsBug(row) == row["issue_type"] \in bug_types
    IN  SelectSeq(tbl.rows, IsBug)

saas_bugs_of(tbl) ==
    LET Pick(row) == contains_ignore_case(saas_markers, row_str(tbl, row))
    IN  SelectSeq(bugs_of(tbl), Pick)

private_bugs_of(tbl) ==
    LET Pick(row) == contains_ignore_case(private_markers, row_str(tbl, row))
    IN  SelectSeq(bugs_of(tbl), Pick)

other_bugs_of(tbl) ==
    LET Pick(row) ==
            ~contains_ignore_case(saas_markers \cup private_markers, row_str(tbl, row))
    IN  SelectSeq(bugs_of(tbl), Pick)

\* lines 76-104, 158-163: the results of analyze_jira_bugs the comparison table
\* reads; the three group totals are stored only under the condition of line 99
analyze_jira_bugs(tbl) ==
    IF Len(saas_bugs_of(tbl)) > 0 \/ Len(private_bugs_of(tbl)) > 0
    THEN [total_bugs |-> Len(bugs_of(tbl)),
          saas_bugs_total |-> Len(saas_bugs_of(tbl)),
          private_bugs_total |-> Len(private_bugs_of(tbl)),
          other_bugs_total |-> Len(other_bugs_of(tbl))]
    ELSE [total_bugs |-> Len(bugs_of(tbl))]

\* rows of the issue table: a fault found in the SaaS production environment; a
\* defect found in a private customer's production environment; a fault found in
\* the private production environment of the customer 'SaaS' + customer; a defect
\* found in the test environment; a task; a Bug of the customer 'saas' + customer;
\* a fault found in a private deployment
SummaryRowSamples ==
    { [issue_type |-> s_fault, env |-> <<"S", "a", "a", "S", "u751f", "u4ea7", "u73af", "u5883">>, customer_name |-> NaN,
       status |-> s_done, created |-> <<"2", "0", "2", "5", "-", "0", "1", "-", "0", "6">>],
      [issue_type |-> s_defect, env |-> <<"u79c1", "u6709", "u5316", "u5ba2", "u6237", "u751f", "u4ea7", "u73af", "u5883">>, customer_name |-> s_didi,
       status |-> s_todo, created |-> <<"2", "0", "2", "5", "-", "0", "1", "-", "0", "6">>],
      [issue_type |-> s_fault, env |-> <<"u79c1", "u6709", "u5316", "u5ba2", "u6237", "u751f", "u4ea7", "u73af", "u5883">>, customer_name |-> s_SaaS_customer,
       status |-> s_done, created |-> <<"2", "0", "2", "5", "-", "0", "1", "-", "0", "6">>],
      [issue_type |-> s_defect, env |-> <<"u6d4b", "u8bd5", "u73af", "u5883">>, customer_name |-> NaN,
       status |-> s_todo, created |-> <<"2", "0", "2", "5", "-", "0", "1", "-", "0", "6">>],
      [issue_type |-> <<"u4efb", "u52a1">>, env |-> <<"S", "a", "a", "S", "u751f", "u4ea7", "u73af", "u5883">>, customer_name |-> NaN,
       status |-> s_done, created |-> <<"2", "0", "2", "5", "-", "0", "1", "-", "0", "6">>],
      [issue_type |-> <<"B", "u", "g">>, env |-> NaN, customer_name |-> <<"s", "a", "a", "s", "u5ba2", "u6237">>,
       status |-> s_done, created |-> <<"2", "0", "2", "5", "-", "0", "1", "-", "0", "6">>],
      [issue_type |-> s_fault, env |-> <<"u79c1", "u6709", "u5316", "u90e8", "u7f72">>, customer_name |-> s_futian,
       status |-> s_todo, created |-> <<"2", "0", "2", "5", "-", "0", "1", "-", "0", "6">>] }

\* main() has read the issue file (lines 403-410)
InitSummary ==
    /\ WeeklyIdle
    /\ MonthlyIdle
    /\ ClassifierIdle
    /\ PipelineIdle
    /\ CliIdle
    /\ ImagesIdle
    /\ spc = "loaded"
    /\ \E file \in UNION {[1..n -> SummaryRowSamples] : n \in 0..MaxIssues} :
           sjira = read_csv(SummaryColumns, file)
    /\ jira_stats = Unset
    /\ comparison = Unset

\* line 424: jira_stats = analyze_jira_bugs(jira).  Without a bug row, the apply
\* of line 94 gives no text column and lines 94-95 raise.
AnalyzeJiraBugs ==
    /\ spc = "loaded"
    /\ IF bugs_of(sjira) = <<>>
       THEN /\ spc' = "error"
            /\ UNCHANGED jira_stats
       ELSE /\ spc' = "analyzed"
            /\ jira_stats' = analyze_jira_bugs(sjira)
    /\ UNCHANGED <<cvars, pvars, clivars, imgvars, wvars, movars, sjira, comparison>>

\* lines 432, 223-237: the comparison table of the summary: the totals read with
\* .get(key, 0), each shown with its share total_x / total, the row of the other
\* bugs only when there are some
GenerateSummary ==
    /\ spc = "analyzed"
    /\ comparison' = [total |-> jira_stats["total_bugs"],
                      saas_total |-> Get(jira_stats, "saas_bugs_total", 0),
                      private_total |-> Get(jira_stats, "private_bugs_total", 0),
                      other_total |-> Get(jira_stats, "other_bugs_total", 0),
                      other_row |-> Get(jira_stats, "other_bugs_total", 0) > 0]
    /\ spc' = "done"
    /\ UNCHANGED <<cvars, pvars, clivars, imgvars, wvars, movars, sjira, jira_stats>>

NextSummary ==
    \/ AnalyzeJiraBugs
    \/ GenerateSummary

SpecSummary == InitSummary /\ [][NextSummary]_vars

-----------------------------------------------------------------------------
(* Properties of the classifier, under SpecClassify *)

Classes == {r_SaaS, r_private, r_unclassified}

\* the deployment-type column has been computed
Classified == cpc \in {"classified", "separated"}

\* a cell that is missing, empty or whitespace-only
Blank(x) == isna(x) \/ \A k \in 1..Len(x) : x[k] \in Whitespace

\* the text contains the letters s, a, a, s in a row, each in either case
HasSaaSAnyCase(x) ==
    /\ notna(x)
    /\ \E k \in 1..(Len(x) - 3) :
          /\ x[k] \in {"S", "s"}
          /\ x[k + 1] \in {"A", "a"}
          /\ x[k + 2] \in {"A", "a"}
          /\ x[k + 3] \in {"S", "s"}

\* the text contains the private-deployment marker
HasPrivateMarker(x) == notna(x) /\ Contains(s_private, x)

\* C1: classify_deployment is total: once the column is computed, every row of the
\* table, whatever its environment and customer cells (missing, empty, blank or
\* any text), has exactly one of the three classes, and no call raised.
C1_Total ==
    Classified =>
        /\ Len(deployment_col) = Len(bug_df)
        /\ \A k \in 1..Len(bug_df) : deployment_col[k] \in Classes

\* a row with a missing environment and a whitespace-only customer has been classified
C1_Witness ==
    /\ Classified
    /\ \E k \in 1..Len(bug_df) :
          /\ isna(bug_df[k].env)
          /\ bug_df[k].customer = <<" ", "\t">>
          /\ deployment_col[k] \in Classes

\* C2: a row whose environment contains "SaaS" in any letter case is classified
\* SaaS, whatever its customer and whatever else the environment contains.
C2_EnvSaaS ==
    Classified =>
        \A k \in 1..Len(bug_df) :
            HasSaaSAnyCase(bug_df[k].env) => deployment_col[k] = r_SaaS

\* a lower-case "saas" environment with a customer of the private list, and an
\* upper-case "SAAS" environment that also holds the private marker, were classified
C2_Witness ==
    /\ Classified
    /\ \E k \in 1..Len(bug_df) :
          /\ bug_df[k].env = s_saas
          /\ Contains(private_keywords[1], bug_df[k].customer)
          /\ deployment_col[k] = r_SaaS
    /\ \E k \in 1..Len(bug_df) :
          /\ HasSaaSAnyCase(bug_df[k].env)
          /\ HasPrivateMarker(bug_df[k].env)
          /\ deployment_col[k] = r_SaaS

\* C3 as stated: every row whose environment contains the private marker is
\* classified Private.
C3_Original ==
    Classified =>
        \A k \in 1..Len(bug_df) :
            HasPrivateMarker(bug_df[k].env) => deployment_col[k] = r_private

\* C3, amended: a row whose environment contains the private marker and does not
\* contain "SaaS" in any letter case is classified Private, also when its customer
\* contains "SaaS": the environment is tested before the customer.
C3_EnvPrivate ==
    Classified =>
        \A k \in 1..Len(bug_df) :
            (HasPrivateMarker(bug_df[k].env) /\ ~HasSaaSAnyCase(bug_df[k].env))
                => deployment_col[k] = r_private

\* a row with a private environment and a "SaaS" customer was classified Private
C3_Witness ==
    /\ Classified
    /\ \E k \in 1..Len(bug_df) :
          /\ HasPrivateMarker(bug_df[k].env)
          /\ ~HasSaaSAnyCase(bug_df[k].env)
          /\ Contains(s_SaaS, bug_df[k].customer)
          /\ deployment_col[k] = r_private

\* C4: a row whose environment and customer are both blank (missing, empty or
\* whitespace-only) is classified Unclassified.
C4_BlankUnclassified ==
    Classified =>
        \A k \in 1..Len(bug_df) :
            (Blank(bug_df[k].env) /\ Blank(bug_df[k].customer))
                => deployment_col[k] = r_unclassified

\* a row with a whitespace-only environment and a whitespace-only customer, and a
\* row with both cells missing, were classified Unclassified
C4_Witness ==
    /\ Classified
    /\ \E k \in 1..Len(bug_df) :
          /\ bug_df[k].env = <<" ">>
          /\ bug_df[k].customer = <<" ", "\t">>
          /\ deployment_col[k] = r_unclassified
    /\ \E k \in 1..Len(bug_df) :
          /\ isna(bug_df[k].env)
          /\ isna(bug_df[k].customer)
          /\ deployment_col[k] = r_unclassified

\* rows with equal environment and customer cells have the same class
SameInputSameClass ==
    Classified =>
        \A a, b \in 1..Len(bug_df) :
            (bug_df[a].env = bug_df[b].env /\ bug_df[a].customer = bug_df[b].customer)
                => deployment_col[a] = deployment_col[b]

-----------------------------------------------------------------------------
(* Properties of the pipeline, under SpecPipeline *)

\* match_incidents_with_jira has returned in the current run
MatchDone ==
    pc \in {"distribution", "root_causes", "resolution", "report", "write", "done", "raised"}

\* the index labels of the incident table, in table order
IncidentNames == [k \in 1..Len(incidents.rows) |-> incidents.rows[k].name]

\* the index labels of a list of rows are increasing: the rows are in source order
InSourceOrder(names) == \A a, b \in 1..Len(names) : a < b => names[a] < names[b]

\* C6: match_incidents_with_jira partitions the incidents: once it has returned,
\* every incident row is in exactly one of matches and no_matches, the two lengths
\* add up to the number of incident rows, and each list is in source order.
C6_Partition ==
    MatchDone =>
        /\ Len(matches) + Len(no_matches) = Len(incidents.rows)
        /\ \A k \in 1..Len(incidents.rows) :
              Cardinality({m \in 1..Len(matches) :
                              matches[m].incident.name = IncidentNames[k]})
              + Cardinality({n \in 1..Len(no_matches) :
                              no_matches[n].name = IncidentNames[k]}) = 1
        /\ InSourceOrder([m \in 1..Len(matches) |-> matches[m].incident.name])
        /\ InSourceOrder([n \in 1..Len(no_matches) |-> no_matches[n].name])
        /\ pc = "distribution" =>
              /\ \A m \in 1..Len(matches) :
                    \E k \in 1..Len(incidents.rows) : incidents.rows[k] = matches[m].incident
              /\ \A n \in 1..Len(no_matches) :
                    \E k \in 1..Len(incidents.rows) : incidents.rows[k] = no_matches[n]

\* the call returned with a matched incident after an unmatched one
C6_Witness ==
    /\ pc = "distribution"
    /\ Len(matches) = 1
    /\ Len(no_matches) = 1
    /\ no_matches[1].name < matches[1].incident.name

\* every entry of matches carries one row of the issue table, no incident has two
\* entries, and an unmatched incident is kept as the bare incident row
OneIssueEach ==
    /\ \A m \in 1..Len(matches) :
          /\ matches[m].jira # NoRow
          /\ Cardinality({k \in 1..Len(jira.rows) : jira.rows[k] = matches[m].jira}) = 1
    /\ \A a, b \in 1..Len(matches) :
          a # b => matches[a].incident.name # matches[b].incident.name
    /\ \A n \in 1..Len(no_matches) : DOMAIN no_matches[n] = DOMAIN IncidentA \cup {"name"}

\* an issue bound to the incident being scanned stays bound, and is the one appended
BindingKept ==
    (found /\ pc \in {"scan", "append"}) =>
        /\ matched_jira' = matched_jira
        /\ pc' # "scan"
        /\ pc' = "row" =>
              matches' = Append(matches, [incident |-> incidents.rows[idx],
                                          jira |-> matched_jira])

\* the entries appended so far are not changed while the call and the run go on
EntriesKept ==
    pc \notin {"match", "done", "raised"} =>
        \A m \in 1..Len(matches) : Len(matches') >= m /\ matches'[m] = matches[m]

\* C7: each incident is associated with at most one issue: a matched incident
\* carries exactly one issue row, an unmatched one none, and a binding once made is
\* not replaced by a later candidate.
C7_AtMostOneIssue == []OneIssueEach /\ [][BindingKept /\ EntriesKept]_vars

\* an incident was bound to a candidate while a later candidate also reaches the
\* threshold
C7_Witness ==
    /\ pc = "append"
    /\ found
    /\ jidx < Len(jira_faults.rows)
    /\ match_count(keywords, IncidentName(incidents.rows[idx]), jira_faults.rows[jidx + 1])
           >= MatchThreshold

\* C8: every issue bound to an incident, and every candidate scanned, has issue
\* type fault; rows of another type are never candidates, whatever their text.
C8_OnlyFaults ==
    /\ \A m \in 1..Len(matches) : matches[m].jira.issue_type = s_fault
    /\ found => matched_jira.issue_type = s_fault
    /\ pc \in {"row", "scan", "append"} =>
          \A k \in 1..Len(jira_faults.rows) : jira_faults.rows[k].issue_type = s_fault

\* an incident was bound to a fault that stands after a defect whose text reaches
\* the threshold for that incident
C8_Witness ==
    /\ MatchDone
    /\ \E m \in 1..Len(matches) :
          \E k \in 1..Len(jira.rows) :
              /\ jira.rows[k].issue_type = s_defect
              /\ k < matches[m].jira.name
              /\ match_count(RowKeywords(matches[m].incident),
                             IncidentName(matches[m].incident), jira.rows[k])
                     >= MatchThreshold

\* a run has ended
RunEnded == pc \in {"done", "raised"}

\* an outcome without the timestamp of its report
Untimed(o) ==
    [ended |-> o.ended,
     error |-> o.error,
     matches |-> o.matches,
     no_matches |-> o.no_matches,
     distribution |-> o.distribution,
     root_causes |-> o.root_causes,
     resolution |-> o.resolution,
     body |-> IF o.report = Unset THEN Unset ELSE o.report.body]

AfterLoad ==
    {"clean", "match", "row", "scan", "append", "distribution", "root_causes",
     "resolution", "report", "write"}

\* a step after load_data leaves the tables it was passed as they were
TablesKept ==
    pc \in AfterLoad =>
        /\ raw_incidents' = raw_incidents
        /\ jira' = jira
        /\ (pc # "clean" => incidents' = incidents)

\* C10 as stated: every step after load_data leaves the tables it was passed
\* unchanged: same rows, same columns, same values.
C10_Original == [][TablesKept]_vars

-----------------------------------------------------------------------------
(* Properties of clean_incident_data, under SpecPipeline *)

\* clean_incident_data has returned and the incident table is as it returned it
CleanReturned == pc \in {"match", "row", "scan", "append", "distribution"}

\* the run ended inside clean_incident_data: main's incidents was never assigned
CleanRaised == pc = "raised" /\ incidents = NoTable

\* the rows of the loaded table whose report name is neither missing nor blank
NamedRows ==
    LET Named(row) ==
            /\ row.report_name # NaN
            /\ \E k \in 1..Len(row.report_name) : row.report_name[k] \notin Whitespace
    IN  SelectSeq(raw_incidents.rows, Named)

\* C11 as stated: clean_incident_data returns, for every loaded table, the table
\* of exactly the rows whose report name is neither missing nor blank, unchanged
\* and in source order, so every incident the reconciler sees has a name.
C11_Original ==
    /\ ~CleanRaised
    /\ CleanReturned =>
          /\ incidents.columns = raw_incidents.columns
          /\ incidents.rows = NamedRows

-----------------------------------------------------------------------------
(* Properties of the scoring, under SpecPipeline *)

\* the inner loop is at a candidate: an incident row and a fault row are being scored
AtCandidate == pc = "scan" /\ jidx <= Len(jira_faults.rows)

\* keywords to add: customers of the list of extract_keywords, technical terms, a
\* customer outside the list
KeywordTerms == {s_didi, <<"O", "P", "P", "O">>, s_document, s_sync, s_login, s_futian}

\* the list kws with kw put in after its first n keywords
WithKeyword(kws, kw, n) == SubSeq(kws, 1, n) \o <<kw>> \o SubSeq(kws, n + 1, Len(kws))

\* the score of the candidate at hand for the keyword list kws
ScoreWith(kws) ==
    match_count(kws, IncidentName(incidents.rows[idx]), jira_faults.rows[jidx])

\* C12: the score is monotonic in the keyword list: for the incident and the
\* candidate at hand, a keyword added anywhere in the list never lowers
\* match_count, a keyword found in the candidate's text raises it by exactly 1,
\* and a candidate at the threshold stays at the threshold.
C12_Monotonic ==
    AtCandidate =>
        LET before == ScoreWith(keywords)
        IN  \A kw \in KeywordTerms : \A n \in 0..Len(keywords) :
                LET after == ScoreWith(WithKeyword(keywords, kw, n))
                IN  /\ after >= before
                    /\ Contains(kw, combined_text(jira_faults.rows[jidx]))
                          => after = before + 1
                    /\ before >= MatchThreshold => after >= MatchThreshold

\* a candidate at the threshold is being scored for a list that already holds a
\* keyword of the candidate's text: adding that keyword again adds 1, and a keyword
\* absent from the text adds nothing
C12_Witness ==
    /\ AtCandidate
    /\ ScoreWith(keywords) >= MatchThreshold
    /\ \E k \in 1..Len(keywords) :
          /\ keywords[k] \in KeywordTerms
          /\ Contains(keywords[k], combined_text(jira_faults.rows[jidx]))
          /\ ScoreWith(Append(keywords, keywords[k])) = ScoreWith(keywords) + 1
    /\ \E kw \in KeywordTerms :
          /\ ~Contains(kw, combined_text(jira_faults.rows[jidx]))
          /\ ScoreWith(Append(keywords, kw)) = ScoreWith(keywords)

-----------------------------------------------------------------------------
(* The Didi scenario, under SpecPipeline *)

\* the report name of the scenario: Didi + document + sync + incident report
s_didi_report == IncidentA.report_name

\* a fault whose summary contains Didi and whose description contains sync
DidiSyncIssue(jrow) ==
    /\ jrow.issue_type = s_fault
    /\ notna(jrow.summary) /\ Contains(s_didi, jrow.summary)
    /\ notna(jrow.description) /\ Contains(s_sync, jrow.description)

\* the incident of the scenario is being scored against an issue of the scenario
DidiAtCandidate ==
    /\ AtCandidate
    /\ incidents.rows[idx].report_name = s_didi_report
    /\ DidiSyncIssue(jira_faults.rows[jidx])

\* the inner loop for the incident of the scenario is over, and the fault table
\* holds an issue of the scenario
DidiScanned ==
    /\ pc = "append"
    /\ incidents.rows[idx].report_name = s_didi_report
    /\ \E k \in 1..Len(jira_faults.rows) : DidiSyncIssue(jira_faults.rows[k])

\* C13 as stated: in the scenario the keywords are Didi and sync and no other,
\* both are in the issue's text, match_count is 2 and the incident is matched.
C13_Original ==
    /\ DidiAtCandidate =>
          /\ {keywords[k] : k \in 1..Len(keywords)} = {s_didi, s_sync}
          /\ ScoreWith(keywords) = 2
    /\ DidiScanned => found

\* C13, amended: in the scenario the keywords derived from the name are Didi,
\* document and sync, in this order; Didi and sync are in the issue's text;
\* match_count is at least 2, and exactly 2 when the incident adds no customer
\* keyword and the text holds neither document nor the name without its generic
\* words; the incident is matched.
C13_DidiScenario ==
    /\ DidiAtCandidate =>
          LET blob == combined_text(jira_faults.rows[jidx])
          IN  /\ extract_keywords(IncidentName(incidents.rows[idx]))
                    = <<s_didi, s_document, s_sync>>
              /\ SubSeq(keywords, 1, 3) = <<s_didi, s_document, s_sync>>
              /\ Contains(s_didi, blob)
              /\ Contains(s_sync, blob)
              /\ ScoreWith(keywords) >= 2
              /\ (/\ Len(keywords) = 3
                  /\ ~Contains(s_document, blob)
                  /\ ~Contains(name_parts(s_didi_report), blob))
                    => ScoreWith(keywords) = 2
    /\ DidiScanned => found
    /\ (MatchDone /\ \E k \in 1..Len(jira.rows) : DidiSyncIssue(jira.rows[k])) =>
          \A n \in 1..Len(no_matches) : no_matches[n].report_name # s_didi_report

\* the incident of the scenario was bound to an issue of the scenario with score 2
C13_Witness ==
    /\ pc = "append"
    /\ found
    /\ incidents.rows[idx].report_name = s_didi_report
    /\ DidiSyncIssue(matched_jira)
    /\ match_count(keywords, IncidentName(incidents.rows[idx]), matched_jira) = 2

-----------------------------------------------------------------------------
(* Incidents that share nothing with the issues, under SpecMatch *)

\* a matchable cell that is missing, empty or whitespace-only
BlankCell(x) == x = NaN \/ \A k \in 1..Len(x) : x[k] \in Whitespace

\* the matchable fields of an incident row: its report name and its customer
AllBlank(row) == BlankCell(row.report_name) /\ BlankCell(row.customer)

\* the incident row shares nothing with the fault row: none of its keywords and
\* no prefix of its name is in the fault's text
SharesNothing(row, jrow) ==
    match_count(RowKeywords(row), IncidentName(row), jrow) = 0

\* the row is in the unmatched list and in no entry of the matched list
Unmatched(row) ==
    /\ \E n \in 1..Len(no_matches) : no_matches[n] = row
    /\ \A m \in 1..Len(matches) : matches[m].incident # row

-----------------------------------------------------------------------------
(* Date buckets, under SpecDates *)

\* analyze_distribution has returned in this run
DistributionDone == distribution # Unset

\* the date cell parses to a date
Parseable(x) == to_datetime(x) # NaT

\* the sum of the counts of a dict of counts
RECURSIVE SumCounts(_)
SumCounts(d) ==
    IF DOMAIN d = {} THEN 0
    ELSE LET key == CHOOSE x \in DOMAIN d : TRUE
         IN  d[key] + SumCounts([x \in DOMAIN d \ {key} |-> d[x]])

\* the incident rows whose date parses to month m
IncidentsOfMonth(m) ==
    {k \in 1..Len(incidents.rows) :
        /\ Parseable(incidents.rows[k].incident_date)
        /\ to_datetime(incidents.rows[k].incident_date).month = m}

\* the fault rows of the issue table created in month m of 2025
FaultsOfMonth(m) ==
    {k \in 1..Len(jira.rows) :
        /\ jira.rows[k].issue_type = s_fault
        /\ Parseable(jira.rows[k].created)
        /\ to_datetime(jira.rows[k].created).year = 2025
        /\ to_datetime(jira.rows[k].created).month = m}

\* C15: rows without a parseable date are in no month bucket: the incident counts
\* per month add up to the number of incidents with a parseable date, each bucket
\* counting the incidents of its month; the issue counts per month count the
\* faults created in that month of 2025 and nothing else; and analyze_distribution
\* returns whatever the dates are.
C15_DateBuckets ==
    /\ DistributionDone =>
          /\ SumCounts(distribution.monthly_incidents)
                = Cardinality({k \in 1..Len(incidents.rows) :
                                  Parseable(incidents.rows[k].incident_date)})
          /\ DOMAIN distribution.monthly_incidents
                = {m \in 1..12 : IncidentsOfMonth(m) # {}}
          /\ \A m \in DOMAIN distribution.monthly_incidents :
                distribution.monthly_incidents[m] = Cardinality(IncidentsOfMonth(m))
          /\ DOMAIN distribution.jira_monthly = {m \in 1..12 : FaultsOfMonth(m) # {}}
          /\ \A m \in DOMAIN distribution.jira_monthly :
                distribution.jira_monthly[m] = Cardinality(FaultsOfMonth(m))
    /\ (pc = "raised" /\ ~CleanRaised) => DistributionDone

\* analyze_distribution returned one month bucket of one incident for a table
\* with a dated incident and an undated one, and one bucket of one fault for a
\* table with a fault of 2025 and a fault whose date is missing, does not parse or
\* is of 2024
C15_Witness ==
    /\ DistributionDone
    /\ Len(incidents.rows) = 2
    /\ SumCounts(distribution.monthly_incidents) = 1
    /\ \E k \in 1..Len(incidents.rows) : ~Parseable(incidents.rows[k].incident_date)
    /\ Len(jira.rows) = 2
    /\ \A k \in 1..Len(jira.rows) : jira.rows[k].issue_type = s_fault
    /\ SumCounts(distribution.jira_monthly) = 1
    /\ \E k \in 1..Len(jira.rows) : ~Parseable(jira.rows[k].created)

-----------------------------------------------------------------------------
(* Issue files without optional columns, under SpecColumns *)

\* the issue file has no column c
Absent(c) == \A k \in 1..Len(jira_header) : jira_header[k] # c

\* the keys analyze_resolution_stats stores under its severity check
SeverityKeys ==
    {"p0_total", "p0_resolved", "p0_rate", "p1_total", "p1_resolved", "p1_rate"}

\* no function between the cleaning and the report raised for want of a column:
\* a run that ended in an exception after the cleaning got through the matching,
\* analyze_distribution and analyze_root_causes, and through
\* analyze_resolution_stats too when the severity column is absent
NoErrorFromAbsence ==
    (pc = "raised" /\ ~CleanRaised) =>
        /\ distribution # Unset
        /\ root_causes # Unset
        /\ Absent("severity") => resolution # Unset

\* the result keys of the absent columns other than the defect type are omitted
KeysOmitted ==
    /\ distribution # Unset =>
          /\ Absent("severity") => "jira_severity" \notin DOMAIN distribution
          /\ Absent("env") => "env_dist" \notin DOMAIN distribution
    /\ root_causes # Unset =>
          /\ Absent("root_cause") => "root_causes" \notin DOMAIN root_causes
          /\ Absent("solution") => "solution_count" \notin DOMAIN root_causes
    /\ (resolution # Unset /\ Absent("severity")) =>
          DOMAIN resolution \cap SeverityKeys = {}

\* without the customer-name column the text of a candidate ends with the
\* separator: the customer adds the empty string
EmptyCustomerInBlob ==
    (AtCandidate /\ Absent("customer_name")) =>
        LET jrow == jira_faults.rows[jidx]
        IN  combined_text(jrow)
              = (IF jrow.summary = NaN THEN <<>> ELSE jrow.summary) \o <<" ">>
                \o (IF jrow.description = NaN THEN <<>> ELSE jrow.description) \o <<" ">>

\* the report shows 0 or an empty table for the figures of an absent column
ReportSubstitutes ==
    report # Unset =>
        /\ Absent("severity") =>
              /\ report.body.p0_row = [total |-> 0, resolved |-> 0, rate |-> <<0, 1>>]
              /\ report.body.p1_row = [total |-> 0, resolved |-> 0, rate |-> <<0, 1>>]
        /\ Absent("env") => report.body.env_table = <<>>
        /\ Absent("root_cause") => report.body.root_table = <<>>
        /\ Absent("defect_type") => report.body.defect_table = <<>>

\* C16 as stated: with optional columns absent the functions complete, the result
\* key of every absent column is omitted, that of the defect type too, an absent
\* customer name adds the empty string, and the report shows 0 or an empty table.
C16_Original ==
    /\ NoErrorFromAbsence
    /\ KeysOmitted
    /\ (root_causes # Unset /\ Absent("defect_type"))
          => "defect_types" \notin DOMAIN root_causes
    /\ EmptyCustomerInBlob
    /\ ReportSubstitutes

\* C16, amended: with optional columns absent the functions complete, the result
\* keys of the absent severity, environment, root-cause and solution columns are
\* omitted, the key defect_types is kept with an empty dict when the defect-type
\* column is absent, an absent customer name adds the empty string to the text,
\* and the report shows 0 or an empty table for the missing figures.
C16_AbsentColumns ==
    /\ NoErrorFromAbsence
    /\ KeysOmitted
    /\ (root_causes # Unset /\ Absent("defect_type")) =>
          /\ "defect_types" \in DOMAIN root_causes
          /\ root_causes.defect_types = <<>>
    /\ EmptyCustomerInBlob
    /\ ReportSubstitutes

\* a report was written from an issue file without any optional column that holds
\* two faults, one of them bound to an incident
C16_Witness ==
    /\ pc = "done"
    /\ \A c \in OptionalColumns : Absent(c)
    /\ Len(fault_rows(jira).rows) = 2
    /\ Len(matches) = 1
    /\ report.body.p0_row.total = 0
    /\ report.body.total = 2

-----------------------------------------------------------------------------
(* The dispatch of the command line, under SpecCli *)

\* the subcommands that take no argument, and those that need one
PlainCommands == {s_summary, s_incidents, s_products, s_export}
ArgumentCommands == {s_client, s_search}

\* the handler a subcommand names
HandlerOf(c) == <<"c", "m", "d", "_">> \o c

\* the name of a handler as the characters of its str
HandlerName(call) ==
    CASE call.handler = "cmd_summary" -> HandlerOf(s_summary)
      [] call.handler = "cmd_client" -> HandlerOf(s_client)
      [] call.handler = "cmd_search" -> HandlerOf(s_search)
      [] call.handler = "cmd_incidents" -> HandlerOf(s_incidents)
      [] call.handler = "cmd_products" -> HandlerOf(s_products)
      [] call.handler = "cmd_export" -> HandlerOf(s_export)

\* main() has returned
CliDone == apc = "done"

\* exactly one handler ran: the one of subcommand c, on the loaded analyzer, with arg
RanOnly(c, arg) ==
    /\ Len(calls) = 1
    /\ HandlerName(calls[1]) = HandlerOf(c)
    /\ calls[1].arg = arg
    /\ calls[1].analyzer # Unset
    /\ help_printed = 0

\* the help text was printed once and no handler ran
OnlyHelp == help_printed = 1 /\ calls = <<>>

\* C17: the first argument, lowercased, selects the handler: summary, incidents,
\* products and export run exactly their own handler; client and search run theirs,
\* on the second argument, only when there is one; any other command line prints the
\* help and runs no handler; without a subcommand the help is printed and no data is
\* loaded; the JSON file is written exactly when the export handler ran
C17_Dispatch ==
    CliDone =>
        /\ Len(argv) < 2 => (OnlyHelp /\ analyzer = Unset)
        /\ \A c \in PlainCommands :
               (Len(argv) >= 2 /\ lower(argv[2]) = c) => RanOnly(c, None)
        /\ \A c \in ArgumentCommands :
               (Len(argv) > 2 /\ lower(argv[2]) = c) => RanOnly(c, argv[3])
        /\ \A c \in ArgumentCommands :
               (Len(argv) = 2 /\ lower(argv[2]) = c) => OnlyHelp
        /\ (Len(argv) >= 2 /\ lower(argv[2]) \notin PlainCommands \cup ArgumentCommands)
               => OnlyHelp
        /\ json_written <=>
               \E k \in 1..Len(calls) : HandlerName(calls[k]) = HandlerOf(s_export)

\* C17 witness: "CLIENT" with an argument ran cmd_client on that argument
C17_Witness ==
    /\ CliDone
    /\ Len(argv) = 3
    /\ argv[2] = upper(s_client)
    /\ RanOnly(s_client, argv[3])
    /\ ~json_written

-----------------------------------------------------------------------------
(* What remove_base64_images leaves in the file, under SpecImages *)

\* t has the form ![alt](data:image/<type>;base64,<data>): alt without "]", a
\* non-empty type without ";", non-empty data without ")"
IsBase64Image(t) ==
    \E j, p \in 1..Len(t) :
        /\ SubSeq(t, 1, 2) = <<"!", "[">>
        /\ 2 < j
        /\ \A k \in 3..(j - 1) : t[k] # "]"
        /\ SubSeq(t, j, j + 12) = s_data_image
        /\ j + 13 < p
        /\ \A k \in (j + 13)..(p - 1) : t[k] # ";"
        /\ SubSeq(t, p, p + 7) = s_base64
        /\ p + 8 < Len(t)
        /\ \A k \in (p + 8)..(Len(t) - 1) : t[k] # ")"
        /\ t[Len(t)] = ")"

\* s has a substring that is a markdown base64 image
HasBase64Image(s) ==
    \E i \in 1..Len(s) :
        /\ s[i] = "!"
        /\ \E q \in (i + 1)..Len(s) : s[q] = ")" /\ IsBase64Image(SubSeq(s, i, q))

\* a run of the script has ended
PassEnded == rpc \in {"done", "raised"} /\ passes >= 1

\* C18 as stated: after a run the file holds no markdown base64 image, and a second
\* run on that file finds 0 images and leaves the text as the first run wrote it
C18_Original ==
    PassEnded =>
        /\ ~HasBase64Image(md_file)
        /\ passes = 2 => (found_images[2] = 0 /\ md_file = first_output)

\* C18, the run that refutes it: the file
\* "!![a](data:image/p;base64,x)(data:image/p;base64,x)" after two runs:
\* the first found 1 image and wrote "![image removed](data:image/p;base64,x)", the
\* second found 1 image again and changed the text
C18_FailingRun ==
    /\ PassEnded
    /\ passes = 2
    /\ found_images = <<1, 1>>
    /\ first_output = <<"!">> \o s_image_removed \o s_data_url
    /\ md_file = s_image_removed

-----------------------------------------------------------------------------
(* The ordered rules of the classifier, under SpecClassify *)

\* the text contains the letters s, d, k in a row, each in either case
HasSDKAnyCase(x) ==
    /\ notna(x)
    /\ \E k \in 1..(Len(x) - 2) :
          /\ x[k] \in {"S", "s"}
          /\ x[k + 1] \in {"D", "d"}
          /\ x[k + 2] \in {"K", "k"}

\* the text contains "SaaS" as written
HasSaaS(x) == notna(x) /\ Contains(s_SaaS, x)

\* the text contains a name of the private allow-list
OnAllowList(x) ==
    notna(x) /\ \E k \in 1..Len(private_keywords) : Contains(private_keywords[k], x)

\* the conditions of the seven rules, on an environment cell e and a customer cell c
RuleApplies(n, e, c) ==
    CASE n = 1 -> HasSaaSAnyCase(e)
      [] n = 2 -> HasPrivateMarker(e)
      [] n = 3 -> c = s_SaaS_customer \/ HasSaaS(c)
      [] n = 4 -> HasSDKAnyCase(c)
      [] n = 5 -> OnAllowList(c)
      [] n = 6 -> ~Blank(c)
      [] n = 7 -> TRUE

\* the outcomes of the seven rules
RuleOutcome == <<r_SaaS, r_private, r_SaaS, r_private, r_private, r_private, r_unclassified>>

\* the first rule whose condition holds
FirstRule(e, c) ==
    CHOOSE n \in 1..7 : RuleApplies(n, e, c) /\ \A m \in 1..(n - 1) : ~RuleApplies(m, e, c)

\* C19: for every environment and customer, the class of a row is the outcome of the
\* first of the seven rules whose condition holds: (1) environment with SaaS in any
\* case, (2) environment with the private marker, (3) customer equal to "SaaS customer"
\* or containing "SaaS", (4) customer with SDK in any case, (5) customer with a name
\* of the allow-list, (6) customer non-blank after trimming, (7) otherwise; no later
\* rule changes that outcome.
C19_Cascade ==
    Classified =>
        \A k \in 1..Len(bug_df) :
            deployment_col[k] = RuleOutcome[FirstRule(bug_df[k].env, bug_df[k].customer)]

\* C19 witness: a row decided by rule 2 while rule 3, with another outcome, applies as
\* well, and a row decided by rule 3 while rules 5 and 6 do not apply or say Private
C19_Witness ==
    /\ Classified
    /\ \E k \in 1..Len(bug_df) :
          /\ FirstRule(bug_df[k].env, bug_df[k].customer) = 2
          /\ RuleApplies(3, bug_df[k].env, bug_df[k].customer)
          /\ deployment_col[k] = r_private
    /\ \E k \in 1..Len(bug_df) :
          /\ FirstRule(bug_df[k].env, bug_df[k].customer) = 3
          /\ RuleApplies(6, bug_df[k].env, bug_df[k].customer)
          /\ deployment_col[k] = r_SaaS

\* neither the environment nor the customer says SaaS, and the environment does not
\* say private
NoMarker(row) ==
    /\ ~HasSaaSAnyCase(row.env)
    /\ ~HasPrivateMarker(row.env)
    /\ ~HasSaaS(row.customer)

\* C20: a row whose environment contains neither "SaaS" (any case) nor the private
\* marker and whose customer does not contain "SaaS" is Private exactly when its
\* customer is non-blank after trimming, and Unclassified otherwise; so the SDK rule
\* and the allow-list rule give what the non-blank rule gives.
C20_DefaultRule ==
    Classified =>
        \A k \in 1..Len(bug_df) :
            NoMarker(bug_df[k]) =>
                deployment_col[k] = IF Blank(bug_df[k].customer) THEN r_unclassified
                                    ELSE r_private

\* C20 witness: with an empty environment, a customer of the allow-list (Futian) is
\* Private, and so is an "sdk" customer
C20_Witness ==
    /\ Classified
    /\ \E k \in 1..Len(bug_df) :
          /\ bug_df[k].env = <<>>
          /\ NoMarker(bug_df[k])
          /\ Contains(private_keywords[1], bug_df[k].customer)
          /\ deployment_col[k] = r_private
    /\ \E k \in 1..Len(bug_df) :
          /\ NoMarker(bug_df[k])
          /\ HasSDKAnyCase(bug_df[k].customer)
          /\ deployment_col[k] = r_private

-----------------------------------------------------------------------------
(* The scan for the first candidate at the threshold, under SpecScan *)

\* the fault rows of the issue table, in source order
Faults ==
    LET OfTypeFault(jrow) == jrow.issue_type = s_fault
    IN  SelectSeq(jira.rows, OfTypeFault)

\* the score of a fault row against an incident row
Score(row, jrow) == match_count(RowKeywords(row), IncidentName(row), jrow)

\* the positions, among the faults, of the candidates that score 2 or more
Hits(row) == {j \in 1..Len(Faults) : Score(row, Faults[j]) >= 2}

\* the earliest of a non-empty set of positions
Earliest(positions) == CHOOSE j \in positions : \A other \in positions : j <= other

\* the row is in the matched list, bound to jrow, and not in the unmatched list
BoundTo(row, jrow) ==
    /\ \E m \in 1..Len(matches) : matches[m].incident = row /\ matches[m].jira = jrow
    /\ \A m \in 1..Len(matches) : matches[m].incident = row => matches[m].jira = jrow
    /\ \A n \in 1..Len(no_matches) : no_matches[n] # row

\* C21: first match wins, threshold 2: an incident is matched if and only if some
\* fault scores 2 or more against it; it is then bound to the earliest such fault in
\* source order and the scan stops at that fault, later faults not being scored even
\* when one of them would score higher; otherwise the incident is emitted as unmatched.
C21_FirstMatchWins ==
    /\ pc = "append" =>
          LET hits == Hits(incidents.rows[idx])
          IN  IF hits = {}
              THEN ~found /\ jidx = Len(Faults) + 1
              ELSE found /\ jidx = Earliest(hits) /\ matched_jira = Faults[jidx]
    /\ pc = "distribution" =>
          \A k \in 1..Len(incidents.rows) :
              LET row == incidents.rows[k]
              IN  IF Hits(row) = {} THEN Unmatched(row)
                  ELSE BoundTo(row, Faults[Earliest(Hits(row))])

\* C21 witness: the call returned with an incident bound to a fault that scores 2
\* while the fault after it scores more, and with an incident that no fault reaches
C21_Witness ==
    /\ pc = "distribution"
    /\ \E m \in 1..Len(matches) :
          /\ matches[m].jira = Faults[1]
          /\ Score(matches[m].incident, Faults[1]) = 2
          /\ Len(Faults) = 2
          /\ Score(matches[m].incident, Faults[2]) > 2
    /\ Len(no_matches) = 1

-----------------------------------------------------------------------------
(* The score of a candidate, under SpecScan *)

\* the text a field contributes to the blob: nothing when the field is missing
FieldText(x) == IF x = NaN THEN <<>> ELSE x

\* the blob of an issue: its summary, description and customer name, a space between
Blob(jrow) ==
    FieldText(jrow.summary) \o <<" ">> \o FieldText(jrow.description) \o <<" ">>
        \o FieldText(jrow.customer_name)

\* how many of the keywords derived for the incident are substrings of the blob
KeywordHits(row, jrow) ==
    LET kws == RowKeywords(row)
    IN  Cardinality({k \in 1..Len(kws) : Contains(kws[k], Blob(jrow))})

\* the report name without "incident report" and 的, trimmed
NameRest(row) == strip(Remove(Remove(IncidentName(row), s_incident_report), s_de))

\* the rest of the name is longer than 5 and its first 10 characters are in the blob
NamePrefixFound(row, jrow) ==
    LET rest == NameRest(row)
        first10 == IF Len(rest) > 10 THEN SubSeq(rest, 1, 10) ELSE rest
    IN  Len(rest) > 5 /\ Contains(first10, Blob(jrow))

\* C22: for every incident and every candidate, match_count is the number of the
\* incident's derived keywords that are substrings of the blob of the issue's
\* summary, description and customer name (a missing field adding no text), plus 2
\* if and only if the report name without "incident report" and 的, trimmed, is longer
\* than 5 and its first 10 characters are a substring of the blob.
C22_Score ==
    /\ AtCandidate =>
          /\ keywords = RowKeywords(incidents.rows[idx])
          /\ ScoreWith(keywords)
                 = KeywordHits(incidents.rows[idx], jira_faults.rows[jidx])
                   + (IF NamePrefixFound(incidents.rows[idx], jira_faults.rows[jidx])
                      THEN 2 ELSE 0)
    /\ pc = "row" =>
          \A k \in 1..Len(incidents.rows) : \A j \in 1..Len(Faults) :
              Score(incidents.rows[k], Faults[j])
                  = KeywordHits(incidents.rows[k], Faults[j])
                    + (IF NamePrefixFound(incidents.rows[k], Faults[j]) THEN 2 ELSE 0)

\* C22 witness: a candidate is scored 4 for an incident whose name is longer than 10
\* characters: two keywords and the first 10 characters of the name are in its blob;
\* and the same candidate holds the whole of a 4-character name, which adds nothing
C22_Witness ==
    /\ AtCandidate
    /\ Len(NameRest(incidents.rows[idx])) > 10
    /\ ~Contains(NameRest(incidents.rows[idx]), Blob(jira_faults.rows[jidx]))
    /\ NamePrefixFound(incidents.rows[idx], jira_faults.rows[jidx])
    /\ KeywordHits(incidents.rows[idx], jira_faults.rows[jidx]) = 2
    /\ ScoreWith(keywords) = 4
    /\ \E k \in 1..Len(incidents.rows) :
          /\ Len(NameRest(incidents.rows[k])) = 4
          /\ Contains(NameRest(incidents.rows[k]), Blob(jira_faults.rows[jidx]))
          /\ Score(incidents.rows[k], jira_faults.rows[jidx])
                 = KeywordHits(incidents.rows[k], jira_faults.rows[jidx])

-----------------------------------------------------------------------------
(* The signals behind a match, under SpecScan *)

\* the distinct derived keywords of the incident that occur in the blob of the issue
DistinctHits(row, jrow) ==
    LET kws == RowKeywords(row)
    IN  {kws[k] : k \in {j \in 1..Len(kws) : Contains(kws[j], Blob(jrow))}}

\* two independent signals: two distinct keywords in the blob, or the name prefix
TwoSignals(row, jrow) ==
    Cardinality(DistinctHits(row, jrow)) >= 2 \/ NamePrefixFound(row, jrow)

\* C23 as stated: whenever an issue is bound to an incident, at least two distinct
\* derived keywords of the incident occur in the issue's blob, or the incident's name
\* prefix occurs in it; one single term in the blob never reaches the threshold.
C23_Original ==
    /\ (pc = "append" /\ found) => TwoSignals(incidents.rows[idx], matched_jira)
    /\ \A m \in 1..Len(matches) : TwoSignals(matches[m].incident, matches[m].jira)

\* C23, the run that refutes it: the incident named "Didi" + 的 + incident report
\* with customer Didi has the keyword list <<Didi, Didi>>; it is bound to a fault
\* whose blob holds Didi and nothing else of the incident
C23_SingleTerm ==
    /\ pc = "append"
    /\ found
    /\ keywords = <<s_didi, s_didi>>
    /\ DistinctHits(incidents.rows[idx], matched_jira) = {s_didi}
    /\ ~NamePrefixFound(incidents.rows[idx], matched_jira)
    /\ ScoreWith(keywords) = 2

-----------------------------------------------------------------------------
(* The keywords derived for an incident, under SpecScan *)

\* the domain terms, each with the words of a report name that stand for it
DomainTerms ==
    { [term |-> s_table, words |-> {s_table, s_form}],
      [term |-> s_document, words |-> {s_document, s_file}],
      [term |-> s_sync, words |-> {s_sync}],
      [term |-> s_login, words |-> {s_login}],
      [term |-> s_blank_screen, words |-> {s_blank_screen}] }

\* the keywords a report name gives: the customers of the allow-list and the domain
\* terms it contains; none when the name is missing
NameKeywords(name) ==
    IF name = NaN THEN {}
    ELSE {customers[k] : k \in {j \in 1..Len(customers) : Contains(customers[j], name)}}
         \cup {d.term : d \in {e \in DomainTerms : \E w \in e.words : Contains(w, name)}}

\* the customer field as a keyword: when present, not empty and not the text "nan"
CustomerKeyword(row) ==
    IF row.customer = NaN \/ row.customer = <<>> \/ row.customer = s_nan THEN {}
    ELSE {row.customer}

\* the elements of a list
Elements(list) == {list[k] : k \in 1..Len(list)}

\* C24: the keywords derived for an incident are exactly the customers of the fixed
\* allow-list that are substrings of its report name, the domain terms its report
\* name calls for (table for table or form, document for document or file, sync,
\* login, blank screen), and its customer field when that is present, not empty and
\* not the text "nan"; nothing else; extract_keywords of a missing name is empty.
C24_Keywords ==
    /\ pc \in {"scan", "append"} =>
          Elements(keywords) = NameKeywords(incidents.rows[idx].report_name)
                                   \cup CustomerKeyword(incidents.rows[idx])
    /\ pc = "row" =>
          \A k \in 1..Len(incidents.rows) :
              /\ Elements(extract_keywords(incidents.rows[k].report_name))
                     = NameKeywords(incidents.rows[k].report_name)
              /\ incidents.rows[k].report_name = NaN
                     => extract_keywords(incidents.rows[k].report_name) = <<>>

\* C24 witness: the keywords of an incident named login + blank screen with customer
\* Futian are login, blank screen and Futian, in a table that also holds a row
\* without a name and a row whose name says form and gives the term table
C24_Witness ==
    /\ pc = "scan"
    /\ keywords = <<s_login, s_blank_screen, s_futian>>
    /\ incidents.rows[idx].customer = s_futian
    /\ \E k \in 1..Len(incidents.rows) :
          \/ incidents.rows[k].report_name = NaN
          \/ /\ Contains(s_form, incidents.rows[k].report_name)
             /\ ~Contains(s_table, incidents.rows[k].report_name)
             /\ s_table \in Elements(extract_keywords(incidents.rows[k].report_name))

-----------------------------------------------------------------------------
(* The outcome of one incident among others, under SpecScan *)

\* the outcome of the scan of the faults from position j on for one incident row,
\* taken alone: the first fault that scores 2 or more, NoRow when there is none
RECURSIVE ScanAlone(_, _)
ScanAlone(row, j) ==
    IF j > Len(Faults) THEN NoRow
    ELSE IF Score(row, Faults[j]) >= 2 THEN Faults[j]
    ELSE ScanAlone(row, j + 1)

\* what the call recorded for the incident row: the issue it is bound to, NoRow when
\* it is in the unmatched list
Recorded(row) ==
    IF \E m \in 1..Len(matches) : matches[m].incident = row
    THEN (CHOOSE entry \in Elements(matches) : entry.incident = row).jira
    ELSE NoRow

\* the cells of an incident row, without its index label
Cells(row) == [c \in DOMAIN row \ {"name"} |-> row[c]]

\* C26: the outcome of an incident depends on that incident and the issue table only:
\* it is what the scan gives for the incident alone, whatever other incidents are in
\* the table and wherever the incident stands, so two rows with equal cells have the
\* same outcome; the candidates are the same for every incident, a bound issue
\* staying among them, so one issue may be bound to several incidents.
C26_Independent ==
    /\ pc \in {"row", "scan", "append"} => jira_faults.rows = Faults
    /\ pc = "distribution" =>
          /\ \A k \in 1..Len(incidents.rows) :
                Recorded(incidents.rows[k]) = ScanAlone(incidents.rows[k], 1)
          /\ \A a, b \in 1..Len(incidents.rows) :
                Cells(incidents.rows[a]) = Cells(incidents.rows[b])
                    => Recorded(incidents.rows[a]) = Recorded(incidents.rows[b])

\* C26 witness: the call returned with two different incidents bound to the same issue
C26_Witness ==
    /\ pc = "distribution"
    /\ Len(matches) = 2
    /\ Cells(matches[1].incident) # Cells(matches[2].incident)
    /\ matches[1].jira = matches[2].jira

-----------------------------------------------------------------------------
(* Runs that end in an exception, under SpecPipeline *)

\* C27 as stated: for every pair of input files with the required columns the run
\* ends with a report written and no exception, also when no incident row survives
\* the cleaning and when there is no fault among the issues.
C27_Original ==
    /\ pc # "raised"
    /\ RunEnded => (error = "" /\ report # Unset /\ output_file = report)

\* C27, the run that refutes it: no incident row is left after the cleaning; the
\* three analyses have returned, and generate_report has raised ZeroDivisionError
\* before any report is written
C27_NoIncident ==
    /\ pc = "raised"
    /\ error = "ZeroDivisionError"
    /\ incidents # NoTable
    /\ Len(incidents.rows) = 0
    /\ resolution # Unset
    /\ report = Unset
    /\ output_file = Unset

-----------------------------------------------------------------------------
(* Properties of the weekly report analyzer, under SpecWeekly *)

\* the positions of a text where a date header begins: a # at the start of a line,
\* at most one more #, space, and eight digits
Headers(s) == {i \in 1..Len(s) : HeaderEnd(s, i) > 0}

\* the k-th date header of a text, in the order of the text
HeaderAt(s, k) ==
    CHOOSE i \in Headers(s) : Cardinality({j \in Headers(s) : j <= i}) = k

\* the text between the k-th date header and the next one (or the end of the text)
ContentAfter(s, k) ==
    LET from == HeaderEnd(s, HeaderAt(s, k)) + 1
        to == IF k < Cardinality(Headers(s)) THEN HeaderAt(s, k + 1) - 1 ELSE Len(s)
    IN  SubSeq(s, from, to)

\* the date headers of the files loaded before the f-th one
HeadersBefore(f) ==
    Cardinality(UNION {{<<g, i>> : i \in Headers(loaded[g])} :
                           g \in {h \in 1..Len(loaded) : h < f}})

KnownClients == {KNOWN_CLIENTS[k] : k \in 1..Len(KNOWN_CLIENTS)}

Mentions(c) == IF c \in DOMAIN client_mentions THEN client_mentions[c] ELSE 0

EntriesFollowHeaders ==
    /\ Len(entries) = HeadersBefore(Len(loaded) + 1)
    /\ \A f \in 1..Len(loaded) : \A k \in 1..Cardinality(Headers(loaded[f])) :
           LET e == entries[HeadersBefore(f) + k]
               h == HeaderAt(loaded[f], k)
           IN  /\ e.date = SubSeq(loaded[f], HeaderEnd(loaded[f], h) - 7,
                                  HeaderEnd(loaded[f], h))
               /\ e.raw_content = ContentAfter(loaded[f], k)
               /\ e.clients = {c \in KnownClients : Contains(c, e.raw_content)}

ClientStatistics ==
    /\ all_clients = UNION {entries[k].clients : k \in 1..Len(entries)}
    /\ \A c \in KnownClients \cup DOMAIN client_mentions :
           Mentions(c) = Cardinality({k \in 1..Len(entries) : c \in entries[k].clients})

EarlierEntriesKept ==
    /\ Len(entries') >= Len(entries)
    /\ SubSeq(entries', 1, Len(entries)) = entries

\* C25: after any sequence of load_markdown_file calls, entries holds one entry
\* for each date header of every file loaded so far, in load order and in file
\* order, no step removes or changes an entry that was there, all_clients is the
\* union of the entries' client sets, and client_mentions[c] is the number of
\* entries whose client set holds c.
C25_Incremental ==
    /\ [](EntriesFollowHeaders /\ ClientStatistics)
    /\ [][EarlierEntriesKept]_vars

\* C25 (witness): two files with two date headers each are loaded, one after the
\* other, and Didi is mentioned in two entries.
C25_Witness ==
    /\ loaded = <<FileNewestFirst, FileOldestFirst>>
    /\ Len(entries) = 4
    /\ Mentions(<<"u6ef4", "u6ef4">>) = 2

\* the number an eight-digit date is
DateNumber(d) ==
    LET v(k) == DigitValue(d[k])
    IN  ((((((v(1) * 10 + v(2)) * 10 + v(3)) * 10 + v(4)) * 10 + v(5)) * 10 + v(6)) * 10
            + v(7)) * 10 + v(8)

EntryDates == {entries[k].date : k \in 1..Len(entries)}

EarliestDate == CHOOSE d \in EntryDates : \A o \in EntryDates : DateNumber(d) <= DateNumber(o)

LatestDate == CHOOSE d \in EntryDates : \A o \in EntryDates : DateNumber(d) >= DateNumber(o)

\* a range from the earliest entry date to the latest one, empty stands for the
\* value of a range without entries
RangeCoversEntries(range, empty) ==
    IF entries = <<>>
    THEN range.start = empty /\ range.end = empty
    ELSE /\ range.start # empty
         /\ range.end # empty
         /\ range.start = EarliestDate
         /\ range.end = LatestDate
         /\ DateNumber(range.start) <= DateNumber(range.end)

\* C28 (as stated): the exported date_range and the analysis period of the summary
\* start at the earliest entry date and end at the latest one, so start <= end, and
\* both are None / N/A exactly when no entry was loaded.
C28_Original ==
    /\ wpc \in {"export", "done"} => RangeCoversEntries(period, s_na)
    /\ wpc = "done" => RangeCoversEntries(date_range, None)

\* C28 (the failing run): a file whose weeks stand earliest first is exported with a
\* range that starts after it ends.
C28_StartAfterEnd ==
    /\ wpc = "done"
    /\ loaded = <<FileOldestFirst>>
    /\ DateNumber(date_range.start) > DateNumber(date_range.end)

-----------------------------------------------------------------------------
(* Properties of the two SaaS filters, under SpecMonthly *)

BothReportsDone == cpc = "separated" /\ mopc = "filtered"

\* C30 (as stated): for every record is_saas is True exactly when
\* classify_deployment is SaaS, so once both scripts have selected their SaaS
\* bugs from the same input, the two selections are the same rows.
C30_Original ==
    BothReportsDone =>
        /\ \A k \in 1..Len(bug_df) :
               is_saas(bug_df[k]) <=> (classify_deployment(bug_df[k]) = r_SaaS)
        /\ saas_df = monthly_saas_df

\* C30 (the failing run): a bug found in a private deployment of the customer
\* 'SaaS' + customer is in the SaaS rows of the monthly report and not in those
\* of the SaaS vs Private report.
C30_Disagree ==
    /\ BothReportsDone
    /\ Len(bug_df) = 1
    /\ bug_df[1].env = <<"u79c1", "u6709", "u5316", "u90e8", "u7f72">>
    /\ bug_df[1].customer = s_SaaS_customer
    /\ monthly_saas_df = <<1>>
    /\ saas_df = <<>>

-----------------------------------------------------------------------------
(* Properties of the annual summary, under SpecSummary *)

InSaaSGroup(row) == \E k \in 1..Len(saas_bugs_of(sjira)) : saas_bugs_of(sjira)[k] = row

InPrivateGroup(row) ==
    \E k \in 1..Len(private_bugs_of(sjira)) : private_bugs_of(sjira)[k] = row

CountedTwice == {k \in 1..Len(sjira.rows) :
                    InSaaSGroup(sjira.rows[k]) /\ InPrivateGroup(sjira.rows[k])}

\* C29 (as stated): the SaaS, Private and Other groups of analyze_jira_bugs
\* partition the bugs: no bug is in both the SaaS and the Private group, and the
\* three totals add up to total_bugs, so the shares of the comparison table add
\* up to the whole.
C29_Original ==
    spc = "done" =>
        /\ CountedTwice = {}
        /\ comparison.saas_total + comparison.private_total + comparison.other_total
               = comparison.total

\* C29 (the failing run): one fault found in the private production environment of
\* the customer 'SaaS' + customer is the only bug, and it is counted in the SaaS
\* group and in the Private group.
C29_CountedTwice ==
    /\ spc = "done"
    /\ CountedTwice = {1}
    /\ comparison.total = 1
    /\ comparison.saas_total = 1
    /\ comparison.private_total = 1

\* C29 (another failing run): bugs without a marker, the three totals read 0.
C29_NothingCounted ==
    /\ spc = "done"
    /\ comparison.total > 0
    /\ comparison.saas_total + comparison.private_total + comparison.other_total = 0

====
